---- MODULE Spec2Model ----
(***************************************************************************)
(* Model of the volleyball prediction game (src/app.py,                    *)
(* src/result_fetcher.py): the scoring engine, the tournament podium       *)
(* scoring, prediction intake and result entry, the default-points         *)
(* recalculation and the player-message cache.                             *)
(***************************************************************************)
EXTENDS Integers, Sequences, FiniteSets, Bags, TLC

\* A NULL integer column (scores, points).
None == -1

\* A NULL / empty string column (team names).
NoTeam == "none"

Abs(x) == IF x < 0 THEN 0 - x ELSE x

\* The score pairs accepted by every intake and result-entry validation:
\* one side exactly 3, the other 0, 1 or 2.
is_valid_volleyball_score(score1, score2) ==
    \/ (score1 = 3 /\ score2 \in {0, 1, 2})
    \/ (score2 = 3 /\ score1 \in {0, 1, 2})

ValidScores == {s \in (0..3) \X (0..3) : is_valid_volleyball_score(s[1], s[2])}

PointValues == {0, 1, 2, 4, 6}

VARIABLES
    pt,             \* scoring engine: one prediction, one game, the points computed
    tp,             \* podium scoring: one podium prediction, the tournament config
    now,            \* get_riga_time(), in ticks
    games,          \* the Game table: game id -> row
    predictions,    \* the Prediction table: a bag of rows
    resp,           \* what the last request answered
    serpapi,        \* the search client's configuration and this month's SerpApiUsage
    ai,             \* the player-message cache and the generator's usage
    config,         \* RecalculationConfig.default_points_position
    accounts,       \* the User table and the login sessions: user id -> row
    tournament,     \* TournamentConfig's deadline and the TournamentPrediction table
    requests,       \* the requests in flight: what each has read, where it is
    highlights      \* the GameHighlight table: a bag of rows

\* The tables only the account, podium, concurrent-request and highlight
\* operations use.
othervars == <<accounts, tournament, requests, highlights>>

vars == <<pt, tp, now, games, predictions, resp, serpapi, ai, config, othervars>>

dbvars == <<now, games, predictions, resp, serpapi, ai, config, othervars>>

(***************************************************************************)
(* Scoring engine: calculate_points                                        *)
(***************************************************************************)

\* calculate_points with the set-difference comparison missing its abs().
calculate_points_no_abs(prediction, game) ==
    IF ~game.is_finished \/ prediction.team1_score = None \/ prediction.team2_score = None
    THEN None
    ELSE LET winner_correct == (prediction.team1_score > prediction.team2_score)
                                = (game.team1_score > game.team2_score)
             exact_score == prediction.team1_score = game.team1_score
                            /\ prediction.team2_score = game.team2_score
             total_sets_correct == prediction.team1_score + prediction.team2_score
                                   = game.team1_score + game.team2_score
             score_diff == (prediction.team1_score - prediction.team2_score)
                           - (game.team1_score - game.team2_score)
         IN IF exact_score THEN 6
            ELSE IF winner_correct /\ score_diff = 1 THEN 4
            ELSE IF winner_correct THEN 2
            ELSE IF total_sets_correct THEN 1
            ELSE 0

calculate_points(prediction, game) ==
    IF ~game.is_finished \/ prediction.team1_score = None \/ prediction.team2_score = None
    THEN None
    ELSE LET predicted_winner == prediction.team1_score > prediction.team2_score
             actual_winner == game.team1_score > game.team2_score
             winner_correct == predicted_winner = actual_winner
             exact_score == prediction.team1_score = game.team1_score
                            /\ prediction.team2_score = game.team2_score
             total_sets_correct == prediction.team1_score + prediction.team2_score
                                   = game.team1_score + game.team2_score
             score_diff == Abs((prediction.team1_score - prediction.team2_score)
                               - (game.team1_score - game.team2_score))
             missed_by_one == score_diff = 1
         IN IF exact_score THEN 6
            ELSE IF winner_correct /\ missed_by_one THEN 4
            ELSE IF winner_correct THEN 2
            ELSE IF total_sets_correct THEN 1
            ELSE 0

\* The predictions and games the scoring engine is run on: a real prediction
\* (a valid score pair) or a placeholder (no scores), carrying whatever points
\* it held before; a finished game with a valid result, or an unfinished one.
ScoredPredictions ==
    {[team1_score |-> s[1], team2_score |-> s[2], points |-> p] :
        s \in ValidScores \cup {<<None, None>>}, p \in PointValues \cup {None}}

ScoredGames ==
    {[team1_score |-> s[1], team2_score |-> s[2], is_finished |-> TRUE] : s \in ValidScores}
    \cup {[team1_score |-> None, team2_score |-> None, is_finished |-> FALSE]}

PtIdle == [prediction |-> [team1_score |-> None, team2_score |-> None, points |-> None],
           game |-> [team1_score |-> None, team2_score |-> None, is_finished |-> FALSE],
           scored |-> FALSE]

\* prediction.points = calculate_points(prediction, game), as every result
\* write path does for each prediction of the game.
ScorePrediction ==
    /\ ~pt.scored
    /\ pt' = [pt EXCEPT !.prediction.points = calculate_points(pt.prediction, pt.game),
                        !.scored = TRUE]
    /\ UNCHANGED <<tp, dbvars>>

(***************************************************************************)
(* Podium scoring: calculate_tournament_points                             *)
(***************************************************************************)

NumTeams == 4

Teams == {"A", "B", "C", "D", "E", "F"}

TeamNames == CHOOSE S \in SUBSET Teams : Cardinality(S) = NumTeams

are_results_available(tournament_config) ==
    /\ tournament_config.is_finalized
    /\ tournament_config.first_place_result # NoTeam
    /\ tournament_config.second_place_result # NoTeam
    /\ tournament_config.third_place_result # NoTeam

\* calculate_tournament_points scoring each slot only when it is exact.
calculate_tournament_points_slot_only(prediction, tournament_config) ==
    IF ~are_results_available(tournament_config) THEN 0
    ELSE (IF prediction.first_place = tournament_config.first_place_result THEN 30 ELSE 0)
       + (IF prediction.second_place = tournament_config.second_place_result THEN 20 ELSE 0)
       + (IF prediction.third_place = tournament_config.third_place_result THEN 20 ELSE 0)

calculate_tournament_points(prediction, tournament_config) ==
    IF ~are_results_available(tournament_config) THEN 0
    ELSE LET user_predictions == {prediction.first_place, prediction.second_place,
                                  prediction.third_place}
             first == IF tournament_config.first_place_result \in user_predictions
                      THEN 15 + (IF prediction.first_place = tournament_config.first_place_result
                                 THEN 15 ELSE 0)
                      ELSE 0
             second == IF tournament_config.second_place_result \in user_predictions
                       THEN 15 + (IF prediction.second_place = tournament_config.second_place_result
                                  THEN 5 ELSE 0)
                       ELSE 0
             third == IF tournament_config.third_place_result \in user_predictions
                      THEN 15 + (IF prediction.third_place = tournament_config.third_place_result
                                 THEN 5 ELSE 0)
                      ELSE 0
         IN first + second + third

\* Three pairwise distinct teams: what tournament_predictions stores as picks
\* and set_tournament_results stores as results.
Podiums == {p \in TeamNames \X TeamNames \X TeamNames :
                p[1] # p[2] /\ p[1] # p[3] /\ p[2] # p[3]}

PodiumPredictions ==
    {[first_place |-> p[1], second_place |-> p[2], third_place |-> p[3], points_earned |-> 0] :
        p \in Podiums}

\* A config before results are set (deadline only) or after set_tournament_results.
TournamentConfigs ==
    {[first_place_result |-> p[1], second_place_result |-> p[2], third_place_result |-> p[3],
      is_finalized |-> TRUE] : p \in Podiums}
    \cup {[first_place_result |-> NoTeam, second_place_result |-> NoTeam,
           third_place_result |-> NoTeam, is_finalized |-> FALSE]}

TpIdle == [prediction |-> [first_place |-> NoTeam, second_place |-> NoTeam,
                           third_place |-> NoTeam, points_earned |-> 0],
           config |-> [first_place_result |-> NoTeam, second_place_result |-> NoTeam,
                       third_place_result |-> NoTeam, is_finalized |-> FALSE],
           scored |-> FALSE]

\* prediction.points_earned = calculate_tournament_points(prediction, config)
ScorePodium ==
    /\ ~tp.scored
    /\ tp' = [tp EXCEPT !.prediction.points_earned =
                            calculate_tournament_points(tp.prediction, tp.config),
                        !.scored = TRUE]
    /\ UNCHANGED <<pt, dbvars>>

(***************************************************************************)
(* The database: users, games, predictions, and the clock                  *)
(***************************************************************************)

NumUsers == 2

NumGames == 2

MaxTime == 3

\* User ids; register makes the first registered user the administrator.
Users == 1..NumUsers

is_admin(user_id) == user_id = 1

GameIds == 1..NumGames

\* A game id no Game row has.
NoGame == NumGames + 1

\* The uploaded fixtures: the games' deadlines are spread over the instants
\* 1..MaxTime-1, and a game starts after its deadline or before it.
fixture_deadline(game_id) == ((game_id - 1) % (MaxTime - 1)) + 1

fixture_date(game_id) == MaxTime - fixture_deadline(game_id)

\* A Game row as upload_games inserts it (result columns at their defaults).
NewGame(game_date, prediction_deadline) ==
    [team1 |-> "A", team2 |-> "B",
     game_date |-> game_date, prediction_deadline |-> prediction_deadline,
     team1_score |-> None, team2_score |-> None, is_finished |-> FALSE,
     auto_update_attempted |-> FALSE, result_source |-> "manual",
     serpapi_search_used |-> FALSE]

\* Game.is_prediction_open / Game.are_predictions_visible at time t.
is_prediction_open(game, t) == t < game.prediction_deadline

\* are_predictions_visible also showing the predictions of a finished game.
are_predictions_visible_or_finished(game, t) ==
    t >= game.prediction_deadline \/ game.is_finished

are_predictions_visible(game, t) == t >= game.prediction_deadline

\* Prediction.query.filter_by(...) on the table.
filter_by_game(preds, game_id) == {r \in BagToSet(preds) : r.game_id = game_id}

filter_by_user(preds, user_id) == {r \in BagToSet(preds) : r.user_id = user_id}

filter_by_user_game(preds, user_id, game_id) ==
    {r \in BagToSet(preds) : r.user_id = user_id /\ r.game_id = game_id}

\* Query.first(): one of the matching rows.
first(rows) == CHOOSE r \in rows : TRUE

\* db.session.add(row) and an in-place UPDATE of one row, committed.
session_add(preds, row) == preds (+) SetToBag({row})

session_update(preds, old, new) == (preds (-) SetToBag({old})) (+) SetToBag({new})

\* Prediction.is_default_prediction
is_default_prediction(p) ==
    p.team1_score = None /\ p.team2_score = None /\ p.predicted_winner = NoTeam

\* The number of rows of the table among the distinct rows `rows`.
RECURSIVE count_rows(_, _)
count_rows(preds, rows) ==
    IF rows = {} THEN 0
    ELSE LET r == CHOOSE r \in rows : TRUE
         IN CopiesIn(r, preds) + count_rows(preds, rows \ {r})

\* An UPDATE of every row of the table: row r becomes set_columns[r].
update_rows(set_columns, preds) ==
    [new \in {set_columns[r] : r \in BagToSet(preds)} |->
        count_rows(preds, {r \in BagToSet(preds) : set_columns[r] = new})]

\* Number of rows of the table for one (user, game).
RowCount(preds, user_id, game_id) ==
    LET rows == filter_by_user_game(preds, user_id, game_id)
    IN BagCardinality([r \in rows |-> CopiesIn(r, preds)])

Resp(op, status, user_id, game_id, rows) ==
    [op |-> op, status |-> status, user |-> user_id, game_id |-> game_id, rows |-> rows]

RespIdle == Resp("none", "none", 1, NoGame, {})

(***************************************************************************)
(* Prediction intake: make_prediction, save_prediction_ajax                *)
(***************************************************************************)

\* A score field the client left out, and a negative one.
Negative == -2

\* The (team1_score, team2_score) pairs submitted: valid ones, and one of each
\* kind the validation rejects (missing field, negative, no winner, too many sets).
FormScores ==
    {<<3, 0>>, <<1, 3>>, <<None, 3>>, <<Negative, 3>>, <<2, 2>>}

\* Which check of the intake validation a form fails, in the order the
\* handlers apply them; "ok" when it passes them all.
validate_form(game_id, team1_score, team2_score) ==
    IF game_id = None \/ team1_score = None \/ team2_score = None THEN "missing"
    ELSE IF team1_score < 0 \/ team2_score < 0 THEN "negative"
    ELSE IF ~is_valid_volleyball_score(team1_score, team2_score) THEN "invalid_score"
    ELSE IF game_id \notin DOMAIN games THEN "not_found"
    ELSE "ok"

predicted_winner(game, team1_score, team2_score) ==
    IF team1_score > team2_score THEN game.team1 ELSE game.team2

\* The upsert inserting a new row even when one exists.
upsert_prediction_always_insert(preds, user_id, game_id, team1_score, team2_score) ==
    session_add(preds, [user_id |-> user_id, game_id |-> game_id,
                        team1_score |-> team1_score, team2_score |-> team2_score,
                        predicted_winner |->
                            predicted_winner(games[game_id], team1_score, team2_score),
                        points |-> None])

\* The upsert shared by both intake handlers: update the existing row of
\* (user, game) in place (points untouched) or insert a new one.
upsert_prediction(preds, user_id, game_id, team1_score, team2_score) ==
    LET existing == filter_by_user_game(preds, user_id, game_id)
        winner == predicted_winner(games[game_id], team1_score, team2_score)
    IN IF existing # {}
       THEN session_update(preds, first(existing),
                [first(existing) EXCEPT !.team1_score = team1_score,
                                        !.team2_score = team2_score,
                                        !.predicted_winner = winner])
       ELSE session_add(preds, [user_id |-> user_id, game_id |-> game_id,
                                team1_score |-> team1_score, team2_score |-> team2_score,
                                predicted_winner |-> winner, points |-> None])

\* The deadline test of the intake handlers skipped once the game is finished.
deadline_passed_unless_finished(game, t) == t >= game.prediction_deadline /\ ~game.is_finished

\* current_time >= deadline
deadline_passed(game, t) == t >= game.prediction_deadline

\* What an intake handler does with a form: the status it answers, whether
\* a row of (user, game) existed, and the table after.
intake(user_id, game_id, team1_score, team2_score) ==
    LET v == validate_form(game_id, team1_score, team2_score)
    IN IF v # "ok" THEN [status |-> v, is_update |-> FALSE, predictions |-> predictions]
       ELSE IF deadline_passed(games[game_id], now)
       THEN [status |-> "deadline_passed", is_update |-> FALSE, predictions |-> predictions]
       ELSE [status |-> "saved",
             is_update |-> filter_by_user_game(predictions, user_id, game_id) # {},
             predictions |-> upsert_prediction(predictions, user_id, game_id,
                                               team1_score, team2_score)]

\* make_prediction flashes 'Prediction saved!' for an insert and an update alike.
make_prediction(user_id, game_id, team1_score, team2_score) ==
    LET r == intake(user_id, game_id, team1_score, team2_score)
    IN /\ predictions' = r.predictions
       /\ resp' = Resp("make_prediction", r.status, user_id, game_id, {})
       /\ UNCHANGED <<now, games, pt, tp, serpapi, ai, config, othervars>>

\* save_prediction_ajax answers 'Prediction updated!' when the row existed.
save_prediction_ajax(user_id, game_id, team1_score, team2_score) ==
    LET r == intake(user_id, game_id, team1_score, team2_score)
    IN /\ predictions' = r.predictions
       /\ resp' = Resp("save_prediction_ajax",
                       IF r.is_update THEN "updated" ELSE r.status, user_id, game_id, {})
       /\ UNCHANGED <<now, games, pt, tp, serpapi, ai, config, othervars>>

(***************************************************************************)
(* Read endpoints showing other players' predictions                       *)
(***************************************************************************)

game_predictions(viewer, game_id) ==
    /\ resp' = IF game_id \notin DOMAIN games
               THEN Resp("game_predictions", "not_found", viewer, game_id, {})
               ELSE IF ~are_predictions_visible(games[game_id], now)
               THEN Resp("game_predictions", "forbidden", viewer, game_id, {})
               ELSE Resp("game_predictions", "ok", viewer, game_id,
                         filter_by_game(predictions, game_id))
    /\ UNCHANGED <<now, games, predictions, pt, tp, serpapi, ai, config, othervars>>

match_detail(viewer, game_id) ==
    /\ resp' = IF game_id \notin DOMAIN games
               THEN Resp("match_detail", "not_found", viewer, game_id, {})
               ELSE IF now < games[game_id].prediction_deadline
               THEN Resp("match_detail", "redirect", viewer, game_id, {})
               ELSE Resp("match_detail", "ok", viewer, game_id,
                         filter_by_game(predictions, game_id))
    /\ UNCHANGED <<now, games, predictions, pt, tp, serpapi, ai, config, othervars>>

user_profile(viewer, user_id) ==
    /\ resp' = IF user_id \notin Users
               THEN Resp("user_profile", "not_found", viewer, NoGame, {})
               ELSE Resp("user_profile", "ok", viewer, NoGame,
                         {p \in filter_by_user(predictions, user_id) :
                             now >= games[p.game_id].prediction_deadline})
    /\ UNCHANGED <<now, games, predictions, pt, tp, serpapi, ai, config, othervars>>

all_predictions(viewer) ==
    LET games_with_passed_deadlines ==
            {g \in DOMAIN games : now >= games[g].prediction_deadline}
    IN /\ resp' = Resp("all_predictions", "ok", viewer, NoGame,
                       {p \in BagToSet(predictions) :
                           p.game_id \in games_with_passed_deadlines})
       /\ UNCHANGED <<now, games, predictions, pt, tp, serpapi, ai, config, othervars>>

(***************************************************************************)
(* Result entry by the administrator: update_result                        *)
(***************************************************************************)

\* prediction.points = calculate_points(prediction, game) for every
\* prediction of the game.
rescore_game(preds, game_id, game) ==
    LET rescored(r) == IF r.game_id = game_id
                       THEN [r EXCEPT !.points = calculate_points(r, game)]
                       ELSE r
    IN update_rows([r \in BagToSet(preds) |-> rescored(r)], preds)

\* game.team1_score, game.team2_score, game.is_finished = ..., ..., True
with_result(game, team1_score, team2_score) ==
    [game EXCEPT !.team1_score = team1_score, !.team2_score = team2_score,
                 !.is_finished = TRUE]

update_result(game_id, team1_score, team2_score) ==
    LET v == validate_form(game_id, team1_score, team2_score)
    IN IF v # "ok"
       THEN /\ resp' = Resp("update_result", v, 1, game_id, {})
            /\ UNCHANGED <<now, games, predictions, pt, tp, serpapi, ai, config, othervars>>
       ELSE LET game == with_result(games[game_id], team1_score, team2_score)
            IN /\ games' = [games EXCEPT ![game_id] = game]
               /\ predictions' = rescore_game(predictions, game_id, game)
               /\ resp' = Resp("update_result", "updated", 1, game_id, {})
               /\ UNCHANGED <<now, pt, tp, serpapi, ai, config, othervars>>

(***************************************************************************)
(* Result search: VolleyballResultFetcher (src/result_fetcher.py)          *)
(*                                                                         *)
(* A text is a sequence of words separated by single spaces: a team name,  *)
(* a one-digit number, a dash, a word of winning ("beat"), a word of       *)
(* losing ("lost").  The texts are shorter than the 50 and 100 character   *)
(* windows the code cuts around a score, so a window is the whole text     *)
(* before or after the score, and distances are counted in words.          *)
(***************************************************************************)

MaxTextLen == 6

MaxStoryLen == 4

\* The words of a score line, and with the words of winning and losing.
ScoreWords == {"A", "B", "1", "3", "-"}

Words == ScoreWords \cup {"beat", "lost"}

\* Score lines of up to MaxTextLen words, and texts with winner and loser
\* words of up to MaxStoryLen words.
Texts ==
    UNION {[1..n -> ScoreWords] : n \in 0..MaxTextLen}
    \cup UNION {[1..n -> Words] : n \in 0..MaxStoryLen}

is_digit(w) == w \in {"0", "1", "2", "3"}

\* int(match.group(k)) of a one-digit group.
int(w) == CASE w = "0" -> 0 [] w = "1" -> 1 [] w = "2" -> 2 [] w = "3" -> 3

\* VolleyballResultFetcher._is_valid_volleyball_score
fetcher_is_valid_volleyball_score(score1, score2) ==
    \/ (score1 = 3 /\ score2 \in {0, 1, 2})
    \/ (score2 = 3 /\ score1 \in {0, 1, 2})

\* The end of a run of dashes starting at word i: [:\s-]+ between two digits
\* is the space between the words with any number of dashes in it.
RECURSIVE skip_dashes(_, _)
skip_dashes(text, i) ==
    IF i <= Len(text) /\ text[i] = "-" THEN skip_dashes(text, i + 1) ELSE i

\* re.finditer(pattern, text) from word i on: the non-overlapping matches,
\* left to right, of  (\d)[:\s-]+(\d)  ("basic"),  (\d)\s*[-]\s*(\d)
\* ("dash") and  (\d)\s*:\s*(\d)  ("colon").
RECURSIVE finditer(_, _, _)
finditer(pattern, text, i) ==
    IF i > Len(text) THEN <<>>
    ELSE LET j == CASE pattern = "basic" -> skip_dashes(text, i + 1)
                    [] pattern = "dash" -> IF i + 1 <= Len(text) /\ text[i + 1] = "-"
                                           THEN i + 2 ELSE 0
                    [] pattern = "colon" -> IF i + 1 <= Len(text) /\ text[i + 1] = ":"
                                            THEN i + 2 ELSE 0
         IN IF is_digit(text[i]) /\ j > i /\ j <= Len(text) /\ is_digit(text[j])
            THEN <<[start |-> i, score1 |-> int(text[i]), score2 |-> int(text[j])]>>
                     \o finditer(pattern, text, j + 1)
            ELSE finditer(pattern, text, i + 1)

\* str.find / str.rfind on words: the first / last position, 0 when absent.
find(text, w) ==
    LET at == {k \in 1..Len(text) : text[k] = w}
    IN IF at = {} THEN 0 ELSE CHOOSE k \in at : \A m \in at : k <= m

rfind(text, w) ==
    LET at == {k \in 1..Len(text) : text[k] = w}
    IN IF at = {} THEN 0 ELSE CHOOSE k \in at : \A m \in at : k >= m

\* re.search of  (team1|team2)\s*(\d+)\s*[-]\s*(team1|team2)\s*(\d+)  in the
\* full text: the position of the leftmost match, 0 when there is none.
team_score_match(text, team1, team2) ==
    LET at == {k \in 1..(Len(text) - 4) :
                  /\ text[k] \in {team1, team2}
                  /\ is_digit(text[k + 1])
                  /\ text[k + 2] = "-"
                  /\ text[k + 3] \in {team1, team2}
                  /\ is_digit(text[k + 4])}
    IN IF at = {} THEN 0 ELSE CHOOSE k \in at : \A m \in at : k <= m

Max(a, b) == IF a >= b THEN a ELSE b

Min(a, b) == IF a <= b THEN a ELSE b

\* VolleyballResultFetcher._determine_team_scores, the strategies after the
\* team-score pattern: names right before and after the score, then winner
\* and loser words, then the distance of the names to the score, then the
\* order of the match.  (The winner-context fallback of the code repeats
\* patterns of the winner strategy, so it never decides.)
determine_by_context(text, team1, team2, score1, score2, match_pos) ==
    LET before_score == SubSeq(text, 1, match_pos - 1)
        after_score == SubSeq(text, match_pos, Len(text))
        team1_before == rfind(before_score, team1)
        team2_before == rfind(before_score, team2)
        team1_after == find(after_score, team1)
        team2_after == find(after_score, team2)
        has(w) == find(text, w) > 0
        team1_is_winner == has(team1) /\ has("beat")
        team2_is_winner == has(team2) /\ has("beat")
        team1_is_loser == has(team1) /\ has("lost")
        team2_is_loser == has(team2) /\ has("lost")
        team1_distance == Abs(find(text, team1) - match_pos)
        team2_distance == Abs(find(text, team2) - match_pos)
    IN IF /\ team1_before > 0 /\ team2_after > 0
          /\ (team2_before = 0 \/ team1_before > team2_before)
       THEN <<score1, score2>>
       ELSE IF /\ team2_before > 0 /\ team1_after > 0
               /\ (team1_before = 0 \/ team2_before > team1_before)
       THEN <<score2, score1>>
       ELSE IF team1_is_winner \/ team2_is_loser
       THEN <<Max(score1, score2), Min(score1, score2)>>
       ELSE IF team2_is_winner \/ team1_is_loser
       THEN <<Min(score1, score2), Max(score1, score2)>>
       ELSE IF has(team1) /\ has(team2)
       THEN IF team1_distance < team2_distance THEN <<score1, score2>>
            ELSE IF team2_distance < team1_distance THEN <<score2, score1>>
            ELSE IF find(text, team1) < find(text, team2) THEN <<score1, score2>>
            ELSE <<score2, score1>>
       ELSE <<score1, score2>>

\* VolleyballResultFetcher._determine_team_scores: "Team1 X - Team2 Y"
\* anywhere in the full text gives (X, Y) as written there.
determine_team_scores(text, team1, team2, score1, score2, match_pos) ==
    LET k == team_score_match(text, team1, team2)
        first_score == int(text[k + 1])
        second_score == int(text[k + 4])
    IN IF k > 0 /\ text[k] = team1 /\ text[k + 3] = team2
       THEN <<first_score, second_score>>
       ELSE IF k > 0 /\ text[k] = team2 /\ text[k + 3] = team1
       THEN <<second_score, first_score>>
       ELSE determine_by_context(text, team1, team2, score1, score2, match_pos)

\* No result (None).
NoResult == [team1_score |-> None, team2_score |-> None, source |-> "none"]

\* VolleyballResultFetcher._extract_score_from_text: the first candidate, in
\* the order of the patterns and of their matches, that is a valid score.
extract_score_from_text(text, team1, team2) ==
    LET matches == finditer("basic", text, 1) \o finditer("dash", text, 1)
                       \o finditer("colon", text, 1)
        valid(m) == fetcher_is_valid_volleyball_score(m.score1, m.score2)
        candidates == SelectSeq(matches, valid)
    IN IF candidates = <<>> THEN NoResult
       ELSE LET m == Head(candidates)
                s == determine_team_scores(text, team1, team2,
                                           m.score1, m.score2, m.start)
            IN [team1_score |-> s[1], team2_score |-> s[2], source |-> "serpapi_text"]

\* A team name of structured data is a sequence of words; "in" on names.
contains(name, part) ==
    \E k \in 1..(Len(name) - Len(part) + 1) : SubSeq(name, k, k + Len(part) - 1) = part

\* VolleyballResultFetcher._is_team_match
is_team_match(found_name, target_name) ==
    /\ found_name # <<>>
    /\ target_name # <<>>
    /\ \/ found_name = target_name
       \/ contains(found_name, target_name)
       \/ contains(target_name, found_name)

\* VolleyballResultFetcher._extract_team_scores: teams_data is a list of
\* entries with a name and score.total.
extract_team_scores(teams_data, team1, team2) ==
    LET is1(e) == is_team_match(e.name, <<team1>>)
        is2(e) == ~is1(e) /\ is_team_match(e.name, <<team2>>)
        for1 == {k \in 1..Len(teams_data) : is1(teams_data[k])}
        for2 == {k \in 1..Len(teams_data) : is2(teams_data[k])}
        last(at) == teams_data[CHOOSE k \in at : \A m \in at : k >= m].total
    IN IF Len(teams_data) # 2 \/ for1 = {} \/ for2 = {} THEN NoResult
       ELSE IF fetcher_is_valid_volleyball_score(last(for1), last(for2))
       THEN [team1_score |-> last(for1), team2_score |-> last(for2),
             source |-> "serpapi_structured"]
       ELSE NoResult

\* The first result a list of candidates gives, None when none does.
first_result(results) ==
    LET found == SelectSeq(results, LAMBDA r : r # NoResult)
    IN IF found = <<>> THEN NoResult ELSE Head(found)

\* VolleyballResultFetcher._parse_sports_results: the game spotlight decides
\* when it is there, otherwise the first game of the list that gives a result.
parse_sports_results(sports_data, team1, team2) ==
    IF sports_data.has_spotlight
    THEN extract_team_scores(sports_data.game_spotlight, team1, team2)
    ELSE first_result([k \in 1..Len(sports_data.games) |->
                          extract_team_scores(sports_data.games[k], team1, team2)])

\* VolleyballResultFetcher._parse_organic_results
parse_organic_results(organic_results, team1, team2) ==
    first_result([k \in 1..Len(organic_results) |->
                     extract_score_from_text(organic_results[k], team1, team2)])

\* VolleyballResultFetcher._parse_response: structured results, then the
\* organic results, then the answer box.  A key the response lacks is an
\* empty list or an empty text here.
parse_response(response, team1, team2) ==
    first_result(<<parse_sports_results(response.sports_results, team1, team2),
                   parse_organic_results(response.organic_results, team1, team2),
                   extract_score_from_text(response.answer_box, team1, team2)>>)

\* Structured data: a team name is the name of team1, of team2, a longer
\* name holding both, or another team's; score.total is 1 or 3.
SportsNames == {<<"A">>, <<"B">>, <<"A", "B">>, <<"C">>}

TeamEntries == [name : SportsNames, total : {1, 3}]

TeamsData == UNION {[1..n -> TeamEntries] : n \in 0..2}

NoSports == [has_spotlight |-> FALSE, game_spotlight |-> <<>>, games |-> <<>>]

SportsResults ==
    {[has_spotlight |-> TRUE, game_spotlight |-> t, games |-> <<>>] : t \in TeamsData}
    \cup {[has_spotlight |-> FALSE, game_spotlight |-> <<>>, games |-> <<t>>] :
             t \in TeamsData}
    \cup {[has_spotlight |-> FALSE, game_spotlight |-> <<>>,
           games |-> <<<<[name |-> <<"A">>, total |-> 3], [name |-> <<"B">>, total |-> 3]>>,
                       t>>] : t \in TeamsData}

ShortTexts == {<<>>, <<"3", "1">>, <<"B", "1", "-", "3">>}

\* The responses of the search engine: structured results alone, one organic
\* result alone, an answer box alone, and mixtures of short ones.
Responses ==
    {[sports_results |-> s, organic_results |-> <<>>, answer_box |-> <<>>] :
        s \in SportsResults}
    \cup {[sports_results |-> NoSports, organic_results |-> <<t>>, answer_box |-> <<>>] :
             t \in Texts}
    \cup {[sports_results |-> NoSports, organic_results |-> <<>>, answer_box |-> t] :
             t \in {t \in Texts : Len(t) <= 2}}
    \cup {[sports_results |-> [has_spotlight |-> TRUE, game_spotlight |-> d,
                               games |-> <<>>],
           organic_results |-> <<t, u>>, answer_box |-> u] :
             d \in {d \in TeamsData : Len(d) = 2 /\ d[1].total = 3}, t, u \in ShortTexts}

\* What one query can come to: client.search raises, or its response parses
\* to a result or to none.  Every game is between the teams "A" and "B".
QueryOutcomes ==
    {[failed |-> TRUE, result |-> NoResult]}
    \cup {[failed |-> FALSE, result |-> parse_response(r, "A", "B")] : r \in Responses}

\* The queries _generate_search_queries lists.
NumQueries == 8

\* The outcomes of the queries of one search, in order: no, one or only
\* responses without a result, then one outcome for every later query.
SearchRuns ==
    {[i \in 1..NumQueries |-> IF i <= k THEN [failed |-> FALSE, result |-> NoResult]
                                         ELSE last] :
        k \in {0, 1, NumQueries}, last \in QueryOutcomes}

\* SerpApiUsage.monthly_limit
monthly_limit == 250

\* SerpApiUsage.can_make_search
can_make_search(searches_used) == searches_used < monthly_limit

\* VolleyballResultFetcher.check_monthly_limit
check_monthly_limit(api) == api.configured /\ can_make_search(api.searches_used)

\* The loop over the queries from query k on: a failed search is skipped,
\* every other one is counted (_update_usage_tracking) and parsed, and the
\* first result ends the search.
RECURSIVE try_queries(_, _, _)
try_queries(run, k, searches_used) ==
    IF k > NumQueries THEN [result |-> NoResult, searches_used |-> searches_used]
    ELSE IF run[k].failed THEN try_queries(run, k + 1, searches_used)
    ELSE IF run[k].result # NoResult
    THEN [result |-> run[k].result, searches_used |-> searches_used + 1]
    ELSE try_queries(run, k + 1, searches_used + 1)

\* VolleyballResultFetcher.search_volleyball_result (through
\* search_game_result): availability and the monthly limit are checked once,
\* before the first query.
search_volleyball_result(api, run) ==
    IF ~api.configured \/ ~check_monthly_limit(api)
    THEN [result |-> NoResult, searches_used |-> api.searches_used]
    ELSE try_queries(run, 1, api.searches_used)

\* game.auto_update_attempted and not force; and a check that never holds.
already_attempted_ignored(game, force) == FALSE

already_attempted(game, force) == game.auto_update_attempted /\ ~force

\* result_fetcher.update_game_with_result(game_id, force).  The answer
\* records whether the call was forced and whether it went on to the
\* queries of a search.
update_game_with_result(game_id, force, run) ==
    LET searched == serpapi.configured /\ check_monthly_limit(serpapi)
        answer(status, queried) ==
            Resp("update_game_with_result", status, 1, game_id, {})
               @@ [force |-> force, searched |-> queried]
    IN IF game_id \notin GameIds
       THEN /\ resp' = answer("false", FALSE)
            /\ UNCHANGED <<now, games, predictions, serpapi, pt, tp, ai, config, othervars>>
       ELSE IF games[game_id].is_finished /\ ~force
       THEN /\ resp' = answer("true", FALSE)
            /\ UNCHANGED <<now, games, predictions, serpapi, pt, tp, ai, config, othervars>>
       ELSE IF already_attempted(games[game_id], force)
       THEN /\ resp' = answer("false", FALSE)
            /\ UNCHANGED <<now, games, predictions, serpapi, pt, tp, ai, config, othervars>>
       ELSE LET found == search_volleyball_result(serpapi, run)
                result == found.result
                game == [with_result(games[game_id], result.team1_score,
                                     result.team2_score)
                            EXCEPT !.result_source = result.source,
                                   !.serpapi_search_used = TRUE,
                                   !.auto_update_attempted = TRUE]
            IN /\ serpapi' = [serpapi EXCEPT !.searches_used = found.searches_used]
               /\ IF result = NoResult
                  THEN /\ games' = [games EXCEPT ![game_id].auto_update_attempted = TRUE]
                       /\ resp' = answer("false", searched)
                       /\ UNCHANGED predictions
                  ELSE /\ games' = [games EXCEPT ![game_id] = game]
                       /\ predictions' = rescore_game(predictions, game_id, game)
                       /\ resp' = answer("true", searched)
               /\ UNCHANGED <<now, pt, tp, ai, config, othervars>>

(***************************************************************************)
(* Default-points recalculation: recalculate_all_points_with_defaults      *)
(***************************************************************************)

NumPlayers == 4

MaxPosition == 5

\* User.query.all() where the recalculation is specified.
all_users == 1..NumPlayers

\* The finished games of the query, in the order of their ids.
finished_games(gs) ==
    {g \in GameIds : gs[g].is_finished /\ gs[g].team1_score # None
                     /\ gs[g].team2_score # None}

\* real_points after real_points.sort(): the points recomputed for the real
\* predictions of the game, ascending, from the value v on.
RECURSIVE real_points_from(_, _, _, _)
real_points_from(preds, game_id, game, v) ==
    LET scoring == {r \in filter_by_game(preds, game_id) :
                       ~is_default_prediction(r) /\ calculate_points(r, game) = v}
    IN IF v > 6 THEN <<>>
       ELSE [i \in 1..count_rows(preds, scoring) |-> v]
                \o real_points_from(preds, game_id, game, v + 1)

real_points(preds, game_id, game) == real_points_from(preds, game_id, game, 0)

\* default_points counted from the best real score instead of the worst.
default_points_from_best(points, n_position) ==
    IF Len(points) >= n_position THEN points[Len(points) - n_position + 1]
    ELSE IF Len(points) > 0 THEN points[Len(points)]
    ELSE 0

\* default_points of one game, from its sorted real points.
default_points(points, n_position) ==
    IF Len(points) >= n_position THEN points[n_position]
    ELSE IF Len(points) > 0 THEN points[1]
    ELSE 0

\* existing_user_ids from the real predictions only.
existing_user_ids_real_only(rows) ==
    {p.user_id : p \in {r \in rows : ~is_default_prediction(r)}}

\* existing_user_ids = {p.user_id for p in all_predictions}
existing_user_ids(rows) == {p.user_id : p \in rows}

\* A placeholder created with 0 points whatever the game's default.
placeholder_with_zero(user_id, game_id, points) ==
    [user_id |-> user_id, game_id |-> game_id, team1_score |-> None,
     team2_score |-> None, predicted_winner |-> NoTeam, points |-> 0]

\* Prediction(user_id, game_id, None, None, None, points=default_points)
placeholder(user_id, game_id, points) ==
    [user_id |-> user_id, game_id |-> game_id, team1_score |-> None,
     team2_score |-> None, predicted_winner |-> NoTeam, points |-> points]

\* The body of the loop for one finished game, on the session's rows.
process_game(session, game_id, game, n_position) ==
    LET preds == session.predictions
        game_rows == filter_by_game(preds, game_id)
        default == default_points(real_points(preds, game_id, game), n_position)
        recomputed(r) ==
            IF r.game_id # game_id THEN r
            ELSE IF is_default_prediction(r) THEN [r EXCEPT !.points = default]
            ELSE [r EXCEPT !.points = calculate_points(r, game)]
        changed == {r \in game_rows : recomputed(r).points # r.points}
        non_predictors == all_users \ existing_user_ids(game_rows)
    IN [predictions |-> update_rows([r \in BagToSet(preds) |-> recomputed(r)], preds)
                            (+) SetToBag({placeholder(u, game_id, default) :
                                             u \in non_predictors}),
        predictions_created |-> session.predictions_created + Cardinality(non_predictors),
        points_updated |-> session.points_updated
                               + count_rows(preds, changed)]

\* The loop over the finished games from game id g on, until `left` of them
\* have been processed.
RECURSIVE process_games(_, _, _, _, _)
process_games(session, gs, g, n_position, left) ==
    IF g > NumGames \/ left = 0 THEN session
    ELSE IF g \in finished_games(gs)
    THEN process_games(process_game(session, g, gs[g], n_position), gs, g + 1,
                       n_position, left - 1)
    ELSE process_games(session, gs, g + 1, n_position, left)

\* A rollback that keeps what the session had flushed.
rollback_keeps_flushed(persisted, session) == session.predictions

\* db.session.rollback(): the rows are the persisted ones.
rollback(persisted, session) == persisted

RecalcResp(status, n_position, session) ==
    [op |-> "recalculate_points", status |-> status, user |-> 1, game_id |-> NoGame,
     rows |-> {}, n_position |-> n_position,
     predictions_created |-> session.predictions_created,
     points_updated |-> session.points_updated]

\* Where an exception is raised: nowhere (0), while the k-th finished game is
\* processed (k), or in the final commit (one more than the finished games).
FailPoints == 0..(NumGames + 1)

\* recalculate_all_points_with_defaults(n_position), fail_at \in FailPoints.
recalculate_all_points_with_defaults(n_position, fail_at) ==
    LET start == [predictions |-> predictions, predictions_created |-> 0,
                  points_updated |-> 0]
        total_games == Cardinality(finished_games(games))
        processed == IF fail_at = 0 THEN total_games ELSE Min(fail_at - 1, total_games)
        session == process_games(start, games, 1, n_position, processed)
    IN IF finished_games(games) = {}
       THEN /\ resp' = RecalcResp("no_finished_games", n_position, start)
            /\ UNCHANGED predictions
       ELSE IF fail_at # 0
       THEN /\ predictions' = rollback(predictions, session)
            /\ resp' = RecalcResp("error", n_position, start)
       ELSE /\ predictions' = session.predictions
            /\ resp' = RecalcResp("success", n_position, session)

\* admin_recalculate_points: the position is saved, then the recalculation runs.
admin_recalculate_points(n_position, fail_at) ==
    IF n_position < 1
    THEN /\ resp' = RecalcResp("invalid_position", n_position,
                               [predictions_created |-> 0, points_updated |-> 0])
         /\ UNCHANGED <<now, games, predictions, pt, tp, serpapi, ai, config, othervars>>
    ELSE /\ config' = n_position
         /\ recalculate_all_points_with_defaults(n_position, fail_at)
         /\ UNCHANGED <<now, games, pt, tp, serpapi, ai, othervars>>

(***************************************************************************)
(* Player messages: AIMessageGenerator, get_user_message                   *)
(*                                                                         *)
(* The clock counts hours.  The hashes of a player's performance and of    *)
(* the latest results are digests of the tables; here they are values that *)
(* change when results change.  The day does not change within MaxTime.    *)
(***************************************************************************)

\* AIMessageGenerator.daily_limit and cache_duration_hours
daily_limit == 100

cache_duration_hours == 24

\* No hash (None), no PlayerMessage row.
NoHash == "none"

NoRow == [present |-> FALSE, message_text |-> "none", performance_hash |-> NoHash,
          latest_results_hash |-> NoHash, created_at |-> 0, expires_at |-> 0,
          viewed |-> FALSE]

\* The texts of the generative service, and of the templates:
\* random.choice(templates), or the specific template after a correct result.
GeminiTexts == {"gemini1", "gemini2"}

TemplateTexts == {"template1", "template2"}

\* AIMessageGenerator._get_fallback_message: the specific template when the
\* latest result was predicted correctly, else random.choice(templates).
get_fallback_message(state, user_id, choice) ==
    IF state.latest_results_hash[user_id] = "nailed" THEN "specific" ELSE choice

\* PlayerMessage.query.filter_by(user_id).filter(expires_at > utcnow()).first()
cached_message(state, user_id, t) ==
    IF state.rows[user_id].present /\ state.rows[user_id].expires_at > t
    THEN state.rows[user_id] ELSE NoRow

\* need_new_message, for the hashes computed at the request.
need_new_message(cached, perf_hash, results_hash, t) ==
    \/ ~cached.present
    \/ cached.performance_hash # perf_hash
    \/ (results_hash # NoHash /\ cached.latest_results_hash # results_hash)
    \/ ~cached.viewed
    \/ t - cached.created_at > 1

\* AIMessageGenerator._can_make_api_call
can_make_api_call(state) == state.calls_made < daily_limit

\* AIMessageGenerator._cache_message: the player's old rows are deleted, one
\* new row is inserted.
cache_message(state, user_id, text, perf_hash, results_hash, t) ==
    [state EXCEPT !.rows[user_id] =
        [present |-> TRUE, message_text |-> text, performance_hash |-> perf_hash,
         latest_results_hash |-> results_hash, created_at |-> t,
         expires_at |-> t + cache_duration_hours, viewed |-> FALSE]]

\* What the generative call comes to: an exception (None), a text of fewer
\* than 15 words, a text.
GeminiOutcomes == {"error", "short"} \cup GeminiTexts

\* AIMessageGenerator.get_or_create_message: the message returned and the
\* state left.  hash_fails: calculate_performance_hash gave None.
get_or_create_message(state, user_id, t, hash_fails, gemini, choice) ==
    LET perf_hash == state.performance_hash[user_id]
        results_hash == state.latest_results_hash[user_id]
        cached == cached_message(state, user_id, t)
        fallback == get_fallback_message(state, user_id, choice)
        answer(text, is_cached, called, after) ==
            [text |-> text, cached |-> is_cached, called |-> called, state |-> after]
    IN IF hash_fails THEN answer(fallback, FALSE, FALSE, state)
       ELSE IF cached.present /\ ~need_new_message(cached, perf_hash, results_hash, t)
       THEN answer(cached.message_text, TRUE, FALSE, state)
       ELSE IF ~can_make_api_call(state) THEN answer(fallback, FALSE, FALSE, state)
       ELSE IF ~state.available THEN answer(fallback, FALSE, FALSE, state)
       ELSE IF gemini = "error" THEN answer(fallback, FALSE, TRUE, state)
       ELSE IF gemini = "short"
       THEN answer(fallback, FALSE, TRUE,
                   cache_message(state, user_id, fallback, perf_hash, results_hash, t))
       ELSE answer(gemini, FALSE, TRUE,
                   cache_message([state EXCEPT !.calls_made = @ + 1], user_id, gemini,
                                 perf_hash, results_hash, t))

\* AIMessageGenerator.mark_message_viewed
mark_message_viewed(state, user_id, t) ==
    IF cached_message(state, user_id, t).present
    THEN [state EXCEPT !.rows[user_id].viewed = TRUE]
    ELSE state

\* The answer, with the hour of the request and the hashes it computed.
MessageResp(user_id, message, t, perf_hash, results_hash) ==
    [op |-> "get_user_message", status |-> "success", user |-> user_id,
     game_id |-> NoGame, rows |-> {}, text |-> message.text, cached |-> message.cached,
     called |-> message.called, at |-> t,
     performance_hash |-> perf_hash, latest_results_hash |-> results_hash]

\* get_user_message: the message, then mark_message_viewed.
get_user_message(user_id, hash_fails, gemini, choice) ==
    LET message == get_or_create_message(ai, user_id, now, hash_fails, gemini, choice)
    IN /\ ai' = mark_message_viewed(message.state, user_id, now)
       /\ resp' = MessageResp(user_id, message, now,
                              IF hash_fails THEN NoHash ELSE ai.performance_hash[user_id],
                              ai.latest_results_hash[user_id])
       /\ UNCHANGED <<now, games, predictions, pt, tp, serpapi, config, othervars>>

\* A result is entered or a prediction scored: the player's hashes change.
ResultsChange(user_id, perf_hash, results_hash) ==
    /\ ai' = [ai EXCEPT !.performance_hash[user_id] = perf_hash,
                        !.latest_results_hash[user_id] = results_hash]
    /\ UNCHANGED <<now, games, predictions, resp, pt, tp, serpapi, config, othervars>>

\* A request of another player for which the service gave a text: of the
\* state a player's requests read, it changes the daily counter only (the
\* rows are read and written by filter_by(user_id=user_id)).
OtherPlayerCall ==
    /\ can_make_api_call(ai)
    /\ ai.available
    /\ ai' = [ai EXCEPT !.calls_made = @ + 1]
    /\ UNCHANGED <<now, games, predictions, resp, pt, tp, serpapi, config, othervars>>

(***************************************************************************)
(* Fixtures import: upload_games                                           *)
(*                                                                         *)
(* In the specification of the import the Game table starts empty and      *)
(* grows: games is the sequence of the rows, the id the position.          *)
(***************************************************************************)

MaxFileLen == 2

\* A date column strptime rejects; a row without a deadline column.
BadDate == -3

NoDeadline == -4

\* The rows of a fixtures file: fixtures of two pairings on two dates, one
\* of them also with its deadline given, a row whose date does not parse,
\* and a row without the round column (row['round'] raises KeyError).
CsvRows ==
    [team1 : {"A"}, team2 : {"B"}, date : {1, 2}, prediction_deadline : {NoDeadline},
     round : {"pool"}]
    \cup [team1 : {"B"}, team2 : {"A"}, date : {1, 2}, prediction_deadline : {NoDeadline},
          round : {"pool"}]
    \cup {[team1 |-> "A", team2 |-> "B", date |-> 2, prediction_deadline |-> 2,
           round |-> "pool"],
          [team1 |-> "A", team2 |-> "B", date |-> BadDate,
           prediction_deadline |-> NoDeadline, round |-> "pool"],
          [team1 |-> "A", team2 |-> "B", date |-> 1, prediction_deadline |-> NoDeadline,
           round |-> "missing"]}

CsvFiles == UNION {[1..n -> CsvRows] : n \in 0..MaxFileLen}

\* Game(team1, team2, game_date, prediction_deadline, round_name)
NewFixture(row, prediction_deadline) ==
    [NewGame(row.date, prediction_deadline) EXCEPT !.team1 = row.team1,
                                                   !.team2 = row.team2]

\* Game.query.filter_by(team1=row['team1'], team2=row['team2'],
\*                      game_date=game_date).first(), swapped and as written.
existing_game_swapped(table, row) ==
    \E i \in 1..Len(table) : /\ table[i].team1 = row.team2
                             /\ table[i].team2 = row.team1
                             /\ table[i].game_date = row.date

existing_game(table, row) ==
    \E i \in 1..Len(table) : /\ table[i].team1 = row.team1
                             /\ table[i].team2 = row.team2
                             /\ table[i].game_date = row.date

\* The loop over the rows of the file from row i on; the session holds the
\* table with the rows added so far (the query flushes them) and their
\* count.  A row whose date does not parse is skipped; a missing deadline
\* is 30 minutes before the start, here the start itself; a missing round
\* column raises.
RECURSIVE import_rows(_, _, _)
import_rows(session, file, i) ==
    IF i > Len(file) THEN session
    ELSE LET row == file[i]
             prediction_deadline == IF row.prediction_deadline = NoDeadline
                                    THEN row.date ELSE row.prediction_deadline
         IN IF row.date = BadDate THEN import_rows(session, file, i + 1)
            ELSE IF existing_game(session.games, row)
            THEN import_rows(session, file, i + 1)
            ELSE IF row.round = "missing" THEN [session EXCEPT !.raised = TRUE]
            ELSE import_rows([session EXCEPT
                                 !.games = Append(@, NewFixture(row, prediction_deadline)),
                                 !.games_added = @ + 1],
                             file, i + 1)

UploadResp(status, is_csv, file, games_added) ==
    [op |-> "upload_games", status |-> status, user |-> 1, game_id |-> NoGame,
     rows |-> {}, is_csv |-> is_csv, file |-> file, games_added |-> games_added]

\* upload_games: the file is imported and committed, unless it is not a CSV
\* file or a row raised (nothing is committed then).
upload_games(is_csv, file) ==
    LET session == import_rows([games |-> games, games_added |-> 0, raised |-> FALSE],
                               file, 1)
    IN /\ IF ~is_csv THEN /\ games' = games
                          /\ resp' = UploadResp("error", is_csv, file, 0)
          ELSE IF session.raised THEN /\ games' = games
                                      /\ resp' = UploadResp("error", is_csv, file, 0)
          ELSE /\ games' = session.games
               /\ resp' = UploadResp("success", is_csv, file, session.games_added)
       /\ UNCHANGED <<now, predictions, pt, tp, serpapi, ai, config, othervars>>

(***************************************************************************)
(* Race chart: get_race_chart_data                                         *)
(***************************************************************************)

\* A users[] value that names no user.
UnknownUser == NumPlayers + 1

\* Game.query.filter_by(is_finished=True).order_by(Game.game_date), from
\* start_date on: the ids of the games, from row `left` of the id set on.
RECURSIVE order_by_game_date(_, _)
order_by_game_date(gs, left) ==
    IF left = {} THEN <<>>
    ELSE LET g == CHOOSE g \in left :
                     \A h \in left : \/ gs[g].game_date < gs[h].game_date
                                     \/ (gs[g].game_date = gs[h].game_date /\ g <= h)
         IN <<g>> \o order_by_game_date(gs, left \ {g})

chart_games(gs, start_date) ==
    order_by_game_date(gs, {g \in finished_games(gs) : gs[g].game_date >= start_date})

\* items.sort(key=lambda x: x[0], reverse=True): the items are pairs
\* <<key, value>>; the sort is stable, equal keys keep their order.
RECURSIVE sort_reverse(_)
sort_reverse(items) ==
    IF items = <<>> THEN <<>>
    ELSE LET n == Len(items)
             x == items[n]
             before == sort_reverse(SubSeq(items, 1, n - 1))
             k == Cardinality({i \in 1..Len(before) : before[i][1] >= x[1]})
         IN SubSeq(before, 1, k) \o <<x>> \o SubSeq(before, k + 1, Len(before))

\* User.get_total_score (no tournament prediction): the sum of the points of
\* the player's predictions that have points.
total_score(preds, user_id) ==
    LET scored == {p \in filter_by_user(preds, user_id) : p.points # None}
        RECURSIVE sum(_)
        sum(rows) == IF rows = {} THEN 0
                     ELSE LET r == CHOOSE r \in rows : TRUE
                          IN r.points * CopiesIn(r, preds) + sum(rows \ {r})
    IN sum(scored)

\* The users of the chart, in the order of the query (by id).
RECURSIVE users_by_id(_)
users_by_id(ids) ==
    IF ids = {} THEN <<>>
    ELSE LET u == CHOOSE u \in ids : \A v \in ids : u <= v
         IN <<u>> \o users_by_id(ids \ {u})

\* sorted(users, key=lambda u: u.get_total_score(), reverse=True)
users_sorted(preds, ids) ==
    LET users == users_by_id(ids)
        sorted == sort_reverse([i \in 1..Len(users) |->
                                   <<total_score(preds, users[i]), users[i]>>])
    IN [i \in 1..Len(sorted) |-> sorted[i][2]]

\* points_data of one user: the cumulative points after each game.
RECURSIVE points_data(_, _, _)
points_data(preds, user_id, game_list) ==
    IF game_list = <<>> THEN <<>>
    ELSE LET n == Len(game_list)
             before == points_data(preds, user_id, SubSeq(game_list, 1, n - 1))
             rows == filter_by_user_game(preds, user_id, game_list[n])
             points == IF rows # {} /\ first(rows).points # None
                       THEN first(rows).points ELSE 0
         IN Append(before, (IF n = 1 THEN 0 ELSE before[n - 1]) + points)

\* The position of user i at a game: the place of i in the sorted scores;
\* or one more than the number of higher scores.
user_position_shared(scores_at_game, i) ==
    LET own == CHOOSE s \in {scores_at_game[k] : k \in 1..Len(scores_at_game)} : s[2] = i
    IN 1 + Cardinality({k \in 1..Len(scores_at_game) : scores_at_game[k][1] > own[1]})

user_position(scores_at_game, i) ==
    LET sorted == sort_reverse(scores_at_game)
    IN CHOOSE pos \in 1..Len(sorted) : sorted[pos][2] = i

\* The selections of the request: no users[] (all users), some users, a
\* user and one that does not exist, a value that is no integer.
Selections == {<<"all", {}>>, <<"ids", all_users \ {1}>>,
               <<"ids", {1, UnknownUser}>>, <<"not_int", {1}>>}

\* The users of the chart for a selection.
chart_users(selection) ==
    IF selection[1] = "ids" THEN selection[2] \cap all_users ELSE all_users

\* get_race_chart_data: the games, and every player's points and positions.
get_race_chart_data(selection, start_date) ==
    LET game_list == chart_games(games, start_date)
        users == users_sorted(predictions, chart_users(selection))
        cumulative == [i \in 1..Len(users) |-> points_data(predictions, users[i], game_list)]
        scores_at_game(game_index) ==
            [idx \in 1..Len(users) |-> <<cumulative[idx][game_index], idx>>]
        players == [i \in 1..Len(users) |->
                       [id |-> users[i],
                        data |-> [game_index \in 1..Len(game_list) |->
                                     user_position(scores_at_game(game_index), i)],
                        points_data |-> cumulative[i],
                        final_position |-> i]]
    IN /\ resp' = [op |-> "get_race_chart_data", status |-> "success", user |-> 1,
                   game_id |-> NoGame, rows |-> {}, selection |-> selection,
                   games |-> game_list,
                   players |-> IF game_list = <<>> THEN <<>> ELSE players]
       /\ UNCHANGED <<now, games, predictions, pt, tp, serpapi, ai, config, othervars>>

(***************************************************************************)
(* What-if analysis: potential_points                                      *)
(***************************************************************************)

\* possible_outcomes, in the order of the list.
possible_outcomes == <<<<3, 0>>, <<3, 1>>, <<3, 2>>, <<2, 3>>, <<1, 3>>, <<0, 3>>>>

\* Game.query.filter(is_finished == False, prediction_deadline < current_time)
\*     .order_by(prediction_deadline.asc()).first(), NoGame if there is none.
target_game(gs, t) ==
    LET qualifying == {g \in DOMAIN gs : ~gs[g].is_finished /\ gs[g].prediction_deadline < t}
    IN IF qualifying = {} THEN NoGame
       ELSE CHOOSE g \in qualifying :
               \A h \in qualifying :
                  \/ gs[g].prediction_deadline < gs[h].prediction_deadline
                  \/ (gs[g].prediction_deadline = gs[h].prediction_deadline /\ g <= h)

\* The mock finished game of an outcome, with the scores exchanged and as
\* written.
mock_game_swapped(game, outcome) ==
    [game EXCEPT !.team1_score = outcome[2], !.team2_score = outcome[1],
                 !.is_finished = TRUE]

mock_game(game, outcome) ==
    [game EXCEPT !.team1_score = outcome[1], !.team2_score = outcome[2],
                 !.is_finished = TRUE]

\* points_earned of a user in a scenario: the points of the user's
\* prediction if it has both scores, else 0.
points_earned(preds, user_id, game_id, mock) ==
    LET rows == filter_by_user_game(preds, user_id, game_id)
    IN IF rows # {} /\ first(rows).team1_score # None /\ first(rows).team2_score # None
       THEN IF calculate_points(first(rows), mock) = None THEN 0
            ELSE calculate_points(first(rows), mock)
       ELSE 0

\* One scenario: the users' results sorted by the total after the game,
\* with the old and the new positions.
scenario(preds, gs, game_id, outcome) ==
    LET users == users_by_id(all_users)
        mock == mock_game(gs[game_id], outcome)
        current == sort_reverse([i \in 1..Len(users) |->
                                    <<total_score(preds, users[i]), users[i]>>])
        current_position(user_id) ==
            CHOOSE pos \in 1..Len(current) : current[pos][2] = user_id
        result(user_id) ==
            [user_id |-> user_id,
             current_total |-> total_score(preds, user_id),
             points_earned |-> points_earned(preds, user_id, game_id, mock),
             total_after_game |-> total_score(preds, user_id)
                                     + points_earned(preds, user_id, game_id, mock),
             current_position |-> current_position(user_id)]
        sorted == sort_reverse([i \in 1..Len(users) |->
                                   <<result(users[i]).total_after_game, result(users[i])>>])
    IN [team1_score |-> outcome[1], team2_score |-> outcome[2],
        user_results |-> [i \in 1..Len(sorted) |-> sorted[i][2]]]

\* potential_points: the scenarios of the target game, or a message when no
\* unfinished game has its deadline behind it.
potential_points ==
    LET game_id == target_game(games, now)
    IN /\ resp' = IF game_id = NoGame
                  THEN [op |-> "potential_points", status |-> "no_game", user |-> 1,
                        game_id |-> NoGame, rows |-> {}, scenarios |-> <<>>]
                  ELSE [op |-> "potential_points", status |-> "scenarios", user |-> 1,
                        game_id |-> game_id, rows |-> {},
                        scenarios |-> [k \in 1..Len(possible_outcomes) |->
                                          scenario(predictions, games, game_id,
                                                   possible_outcomes[k])]]
       /\ UNCHANGED <<now, games, predictions, pt, tp, serpapi, ai, config, othervars>>

(***************************************************************************)
(* Highlight search: YouTubeService (src/youtube_service.py)               *)
(*                                                                         *)
(* A title, description or channel name is a sequence of words; a keyword  *)
(* or team name is in it if its words are in it one after the other.       *)
(***************************************************************************)

\* max_results of search_game_highlights, and of one query.
max_results == 5

\* str.lower, word by word.
lower(w) ==
    CASE w = "A" -> "a" [] w = "B" -> "b" [] w = "Volleyball" -> "volleyball"
      [] w = "HIGHLIGHTS" -> "highlights" [] w = "World" -> "world"
      [] w = "Olympics" -> "olympics" [] OTHER -> w

text_lower(text) == [i \in 1..Len(text) |-> lower(text[i])]

volleyball_keywords == {<<"volleyball">>, <<"fivb">>, <<"world", "championship">>,
                        <<"highlights">>}

trusted_channels == {<<"volleyball", "world">>, <<"fivb">>, <<"olympics">>,
                     <<"world", "championship">>}

\* The videos the platform holds: a video id has one title, description,
\* channel and upload date.
Video(video_id, title, description, channel_name, upload_date) ==
    [video_id |-> video_id, title |-> title, description |-> description,
     channel_name |-> channel_name, upload_date |-> upload_date, view_count |-> 0,
     relevance_score |-> 0]

Catalogue ==
    <<Video("cooking", <<"Cooking">>, <<>>, <<"Home">>, 1),
      Video("moments", <<"Best", "moments">>, <<>>, <<"Olympics">>, 2),
      Video("keyword", <<"Volleyball">>, <<>>, <<"Home">>, 1),
      Video("team", <<"Cooking">>, <<"with", "b">>, <<"Home">>, 2),
      Video("match", <<"A", "vs", "B", "HIGHLIGHTS">>, <<"fivb">>, <<"Volleyball", "World">>, 1),
      Video("versus", <<"vs">>, <<>>, <<"Home">>, 2)>>

\* YouTubeService._deduplicate_videos
RECURSIVE deduplicate_videos(_)
deduplicate_videos(videos) ==
    IF videos = <<>> THEN <<>>
    ELSE LET n == Len(videos)
             before == deduplicate_videos(SubSeq(videos, 1, n - 1))
         IN IF \E i \in 1..Len(before) : before[i].video_id = videos[n].video_id
            THEN before ELSE Append(before, videos[n])

has_volleyball(video) ==
    \E keyword \in volleyball_keywords :
       \/ contains(text_lower(video.title), keyword)
       \/ contains(text_lower(video.description), keyword)

has_teams(video, team1, team2) ==
    \/ contains(text_lower(video.title), <<lower(team1)>>)
    \/ contains(text_lower(video.description), <<lower(team1)>>)
    \/ contains(text_lower(video.title), <<lower(team2)>>)
    \/ contains(text_lower(video.description), <<lower(team2)>>)

is_trusted_channel(video) ==
    \E channel \in trusted_channels : contains(text_lower(video.channel_name), channel)

relevance_score(video, team1, team2) ==
    (IF has_volleyball(video) THEN 2 ELSE 0)
    + (IF has_teams(video, team1, team2) THEN 3 ELSE 0)
    + (IF is_trusted_channel(video) THEN 2 ELSE 0)
    + (IF contains(text_lower(video.title), <<"highlights">>) THEN 1 ELSE 0)
    + (IF contains(text_lower(video.title), <<"vs">>) /\ has_teams(video, team1, team2)
       THEN 1 ELSE 0)

\* YouTubeService._filter_relevant_videos: the videos get their scores; the
\* ones scoring at least 2 are kept.
RECURSIVE filter_relevant_videos(_, _, _)
filter_relevant_videos(videos, team1, team2) ==
    IF videos = <<>> THEN <<>>
    ELSE LET n == Len(videos)
             before == filter_relevant_videos(SubSeq(videos, 1, n - 1), team1, team2)
             score == relevance_score(videos[n], team1, team2)
         IN IF score >= 2
            THEN Append(before, [videos[n] EXCEPT !.relevance_score = score])
            ELSE before

\* YouTubeService._sort_by_relevance: sorted(videos, key=(relevance_score,
\* view_count, upload_date), reverse=True); the view counts are 0 and the
\* dates below 10.
sort_by_relevance(videos) ==
    LET sorted == sort_reverse([i \in 1..Len(videos) |->
                                   <<videos[i].relevance_score * 10 + videos[i].upload_date,
                                     videos[i]>>])
    IN [i \in 1..Len(sorted) |-> sorted[i][2]]

\* What one query comes to: an error (no videos), no video, one video, or
\* the first max_results videos of the catalogue.
QueryResults ==
    {<<>>} \cup {<<Catalogue[i]>> : i \in 1..Len(Catalogue)}
           \cup {SubSeq(Catalogue, 1, Min(max_results, Len(Catalogue)))}

QueriesIssued == 3

\* The loop over search_queries[:3] from query k on.
RECURSIVE search_queries(_, _, _)
search_queries(all_videos, results, k) ==
    IF k > QueriesIssued THEN all_videos
    ELSE IF Len(all_videos \o results[k]) >= max_results THEN all_videos \o results[k]
    ELSE search_queries(all_videos \o results[k], results, k + 1)

\* YouTubeService.search_volleyball_highlights
search_volleyball_highlights(available, team1, team2, results) ==
    IF ~available THEN <<>>
    ELSE LET all_videos == search_queries(<<>>, results, 1)
             unique_videos == deduplicate_videos(all_videos)
             relevant_videos == filter_relevant_videos(unique_videos, team1, team2)
             sorted_videos == sort_by_relevance(relevant_videos)
         IN SubSeq(sorted_videos, 1, Min(max_results, Len(sorted_videos)))

\* search_game_highlights(game_id): the highlights of the game, none when
\* the game does not exist.
search_game_highlights(game_id, available, results) ==
    /\ resp' = [op |-> "search_game_highlights", status |-> "success", user |-> 1,
                game_id |-> game_id, rows |-> {},
                fetched |-> IF game_id \in DOMAIN games /\ available
                            THEN search_queries(<<>>, results, 1) ELSE <<>>,
                videos |-> IF game_id \in DOMAIN games
                           THEN search_volleyball_highlights(
                                    available, games[game_id].team1,
                                    games[game_id].team2, results)
                           ELSE <<>>]
    /\ UNCHANGED <<now, games, predictions, pt, tp, serpapi, ai, config, othervars>>

(***************************************************************************)
(* Accounts: check_password_reset, login, logout, change_password,         *)
(* reset_user_password                                                     *)
(***************************************************************************)

\* The passwords of the forms, and len(new_password).
Passwords == {"", "abc12", "secret", "hunter22"}

len(password) ==
    CASE password = "" -> 0 [] password = "abc12" -> 5 [] password = "secret" -> 6
      [] password = "hunter22" -> 8

\* exempt_routes of check_password_reset, with the index page added and as
\* written.
exempt_routes_with_index ==
    {"login", "logout", "register", "change_password", "static", "index"}

exempt_routes == {"login", "logout", "register", "change_password", "static"}

\* check_password_reset (before_request): the request is redirected to the
\* change-password page.
check_password_reset(user_id, endpoint) ==
    /\ accounts[user_id].authenticated
    /\ accounts[user_id].password_reset_required
    /\ endpoint \notin exempt_routes

\* The answer of a request by a user to an endpoint.
Answer(endpoint, status, user_id) ==
    Resp(endpoint, status, user_id, NoGame, {})

\* A request by user_id to an endpoint: the before_request check, then for a
\* login_required view the login check, then the view.
request(user_id, endpoint, login_required, view) ==
    IF check_password_reset(user_id, endpoint)
    THEN /\ resp' = Answer(endpoint, "redirect_change_password", user_id)
         /\ UNCHANGED <<now, games, predictions, pt, tp, serpapi, ai, config, othervars>>
    ELSE IF login_required /\ ~accounts[user_id].authenticated
    THEN /\ resp' = Answer(endpoint, "redirect_login", user_id)
         /\ UNCHANGED <<now, games, predictions, pt, tp, serpapi, ai, config, othervars>>
    ELSE view

\* index
index(user_id) ==
    /\ resp' = Answer("index", "page", user_id)
    /\ UNCHANGED <<now, games, predictions, pt, tp, serpapi, ai, config, othervars>>

\* login (POST): the user of the form's email, the form's password.
login(user_id, password) ==
    /\ IF password # "" /\ accounts[user_id].password = password
       THEN /\ accounts' = [accounts EXCEPT ![user_id].authenticated = TRUE]
            /\ resp' = Answer("login", "welcome", user_id)
       ELSE /\ resp' = Answer("login", "invalid", user_id)
            /\ UNCHANGED accounts
    /\ UNCHANGED <<highlights, now, games, predictions, pt, tp, serpapi, ai, config,
                   tournament, requests>>

\* logout
logout(user_id) ==
    /\ accounts' = [accounts EXCEPT ![user_id].authenticated = FALSE]
    /\ resp' = Answer("logout", "logged_out", user_id)
    /\ UNCHANGED <<highlights, now, games, predictions, pt, tp, serpapi, ai, config,
                   tournament, requests>>

\* reset_user_password (admin_required): the flag of the user is set, unless
\* there is no such user or the user is an administrator.
reset_user_password(admin_id, user_id) ==
    /\ IF ~is_admin(admin_id)
       THEN /\ resp' = Answer("reset_user_password", "admin_required", admin_id)
            /\ UNCHANGED accounts
       ELSE IF user_id \notin DOMAIN accounts
       THEN /\ resp' = Answer("reset_user_password", "not_found", admin_id)
            /\ UNCHANGED accounts
       ELSE IF is_admin(user_id)
       THEN /\ resp' = Answer("reset_user_password", "cannot_reset_admin", admin_id)
            /\ UNCHANGED accounts
       ELSE /\ accounts' = [accounts EXCEPT ![user_id].password_reset_required = TRUE]
            /\ resp' = Answer("reset_user_password", "initiated", admin_id)
    /\ UNCHANGED <<highlights, now, games, predictions, pt, tp, serpapi, ai, config,
                   tournament, requests>>

\* change_password (POST); the answer records the form.
change_password(user_id, new_password, confirm_password) ==
    LET answer(status) ==
            Answer("change_password", status, user_id)
               @@ [new_password |-> new_password, confirm_password |-> confirm_password]
    IN /\ IF ~accounts[user_id].password_reset_required
          THEN /\ resp' = answer("redirect_index")
               /\ UNCHANGED accounts
          ELSE IF new_password = "" \/ confirm_password = ""
          THEN /\ resp' = answer("required")
               /\ UNCHANGED accounts
          ELSE IF new_password # confirm_password
          THEN /\ resp' = answer("no_match")
               /\ UNCHANGED accounts
          ELSE IF len(new_password) < 6
          THEN /\ resp' = answer("too_short")
               /\ UNCHANGED accounts
          ELSE /\ accounts' = [accounts EXCEPT ![user_id].password = new_password,
                                               ![user_id].password_reset_required = FALSE]
               /\ resp' = answer("changed")
       /\ UNCHANGED <<highlights, now, games, predictions, pt, tp, serpapi, ai, config,
                      tournament, requests>>

\* The users registered, logged out, no password reset required.
(***************************************************************************)
(* Podium predictions: tournament_predictions                              *)
(***************************************************************************)

\* The forms submitted: two podiums, a pick missing, a team picked twice.
PodiumForms ==
    {<<"A", "B", "C">>, <<"B", "A", "C">>, <<"A", "B", NoTeam>>, <<"A", "A", "C">>,
     <<"A", "B", "A">>}

\* TournamentConfig.is_prediction_open: a config row exists and its deadline
\* is ahead.
tournament_is_prediction_open(t) == t < tournament.prediction_deadline

\* The team list of the form: the teams of the games.
tournament_teams == UNION {{games[g].team1, games[g].team2} : g \in DOMAIN games}

\* all([first_place, second_place, third_place])
all_selected(form) == \A i \in 1..3 : form[i] # NoTeam

\* len(set([first_place, second_place, third_place])) == 3, comparing the
\* first two picks only and as written.
three_different_first_two(form) == form[1] # form[2]

three_different(form) == Cardinality({form[1], form[2], form[3]}) = 3

\* TournamentPrediction.query.filter_by(user_id=current_user.id)
tournament_rows_of(rows, user_id) == {r \in BagToSet(rows) : r.user_id = user_id}

\* TournamentPrediction(user_id, first_place, second_place, third_place)
TournamentRow(user_id, form, t) ==
    [user_id |-> user_id, first_place |-> form[1], second_place |-> form[2],
     third_place |-> form[3], points_earned |-> 0, updated_at |-> t]

\* tournament_predictions (POST); the answer records the form.
tournament_predictions(user_id, form) ==
    LET answer(status) == Answer("tournament_predictions", status, user_id) @@ [form |-> form]
        existing == tournament_rows_of(tournament.predictions, user_id)
        row == TournamentRow(user_id, form, now)
    IN /\ IF tournament.prediction_deadline = None
          THEN /\ resp' = answer("not_available")
               /\ UNCHANGED tournament
          ELSE IF tournament_teams = {}
          THEN /\ resp' = answer("no_teams")
               /\ UNCHANGED tournament
          ELSE IF ~tournament_is_prediction_open(now)
          THEN /\ resp' = answer("deadline_passed")
               /\ UNCHANGED tournament
          ELSE IF ~all_selected(form)
          THEN /\ resp' = answer("missing")
               /\ UNCHANGED tournament
          ELSE IF ~three_different(form)
          THEN /\ resp' = answer("duplicate")
               /\ UNCHANGED tournament
          ELSE /\ tournament' =
                     [tournament EXCEPT !.predictions =
                         IF existing # {}
                         THEN session_update(@, first(existing),
                                 [row EXCEPT !.points_earned = first(existing).points_earned])
                         ELSE session_add(@, row)]
               /\ resp' = answer("saved")
       /\ UNCHANGED <<highlights, now, games, predictions, pt, tp, serpapi, ai, config,
                      accounts, requests>>

AccountsIdle ==
    [u \in Users |-> [password |-> "secret", password_reset_required |-> FALSE,
                      authenticated |-> FALSE]]

\* No TournamentConfig row, no TournamentPrediction row.
TournamentIdle ==
    [prediction_deadline |-> None, results |-> TpIdle.config, predictions |-> EmptyBag]

\* The concurrent requests (workers) of the server.
NumRequests == 2

Requests == 1..NumRequests

\* A worker serving no request.
RequestIdle ==
    [stage |-> "idle", handler |-> "none", user_id |-> 1, game_id |-> NoGame,
     form |-> <<>>, existing |-> FALSE, outcome |-> "none"]

\* No request in flight.
RequestsIdle == [r \in Requests |-> RequestIdle]

(***************************************************************************)
(* Concurrent submissions: the handlers split at their database accesses   *)
(***************************************************************************)

\* The (team1_score, team2_score) pairs of the concurrent submissions.
ConcurrentScores == {<<3, 0>>, <<1, 3>>}

\* The games the concurrent submissions are for.
ConcurrentGames == {1}

\* The podiums of the concurrent submissions.
ConcurrentPodiums == {<<"A", "B", "C">>, <<"B", "A", "C">>}

PredictionHandlers == {"make_prediction", "save_prediction_ajax"}

\* A request between the handler's query for the existing row and its commit.
Reading(handler, user_id, game_id, form, existing) ==
    [stage |-> "read", handler |-> handler, user_id |-> user_id, game_id |-> game_id,
     form |-> form, existing |-> existing, outcome |-> "none"]

\* A request whose handler has finished with the database.
Done(req, outcome) == [req EXCEPT !.stage = "done", !.outcome = outcome]

\* A handler up to and including Prediction.query.filter_by(user_id, game_id)
\* .first(): the validation, the deadline test, then the read.
read_existing_prediction(r, handler, user_id, game_id, form) ==
    LET v == validate_form(game_id, form[1], form[2])
        reading == Reading(handler, user_id, game_id, form,
                           filter_by_user_game(predictions, user_id, game_id) # {})
    IN /\ requests[r].stage = "idle"
       /\ requests' =
             [requests EXCEPT ![r] =
                 IF v # "ok" THEN Done(reading, v)
                 ELSE IF deadline_passed(games[game_id], now)
                 THEN Done(reading, "deadline_passed")
                 ELSE reading]
       /\ UNCHANGED <<highlights, now, games, predictions, resp, pt, tp, serpapi, ai, config,
                      accounts, tournament>>

\* tournament_predictions up to its validation: the read of the user's row
\* comes before the deadline test and the checks of the form.
read_existing_tournament_prediction(r, user_id, form) ==
    LET reading == Reading("tournament_predictions", user_id, NoGame, form,
                           tournament_rows_of(tournament.predictions, user_id) # {})
    IN /\ requests[r].stage = "idle"
       /\ requests' =
             [requests EXCEPT ![r] =
                 IF tournament.prediction_deadline = None THEN Done(reading, "not_available")
                 ELSE IF tournament_teams = {} THEN Done(reading, "no_teams")
                 ELSE IF ~tournament_is_prediction_open(now)
                 THEN Done(reading, "deadline_passed")
                 ELSE IF ~all_selected(form) THEN Done(reading, "missing")
                 ELSE IF ~three_different(form) THEN Done(reading, "duplicate")
                 ELSE reading]
       /\ UNCHANGED <<highlights, now, games, predictions, resp, pt, tp, serpapi, ai, config,
                      accounts, tournament>>

\* The unique constraints never refusing an INSERT.
unique_violation_never(rows) == FALSE

\* db.UniqueConstraint: an INSERT is refused when the table holds a row of
\* the same key, `rows` being the rows of that key.
unique_violation(rows) == rows # {}

\* db.session.commit() of a prediction handler: the INSERT of the new row
\* when the read found none, the UPDATE of the row read otherwise.
commit_prediction(req) ==
    LET rows == filter_by_user_game(predictions, req.user_id, req.game_id)
        winner == predicted_winner(games[req.game_id], req.form[1], req.form[2])
    IN IF req.existing
       THEN [outcome |-> "saved",
             predictions |->
                 session_update(predictions, first(rows),
                     [first(rows) EXCEPT !.team1_score = req.form[1],
                                         !.team2_score = req.form[2],
                                         !.predicted_winner = winner])]
       ELSE IF unique_violation(rows)
       THEN [outcome |-> "integrity_error", predictions |-> predictions]
       ELSE [outcome |-> "saved",
             predictions |->
                 session_add(predictions,
                     [user_id |-> req.user_id, game_id |-> req.game_id,
                      team1_score |-> req.form[1], team2_score |-> req.form[2],
                      predicted_winner |-> winner, points |-> None])]

\* db.session.commit() of tournament_predictions.
commit_tournament_prediction(req) ==
    LET rows == tournament_rows_of(tournament.predictions, req.user_id)
        row == TournamentRow(req.user_id, req.form, now)
    IN IF req.existing
       THEN [outcome |-> "saved",
             predictions |->
                 session_update(tournament.predictions, first(rows),
                     [row EXCEPT !.points_earned = first(rows).points_earned])]
       ELSE IF unique_violation(rows)
       THEN [outcome |-> "integrity_error", predictions |-> tournament.predictions]
       ELSE [outcome |-> "saved",
             predictions |-> session_add(tournament.predictions, row)]

\* The commit of the request r that has read.
session_commit(r) ==
    /\ requests[r].stage = "read"
    /\ IF requests[r].handler \in PredictionHandlers
       THEN LET c == commit_prediction(requests[r])
            IN /\ predictions' = c.predictions
               /\ requests' = [requests EXCEPT ![r] = Done(@, c.outcome)]
               /\ UNCHANGED tournament
       ELSE LET c == commit_tournament_prediction(requests[r])
            IN /\ tournament' = [tournament EXCEPT !.predictions = c.predictions]
               /\ requests' = [requests EXCEPT ![r] = Done(@, c.outcome)]
               /\ UNCHANGED predictions
    /\ UNCHANGED <<highlights, now, games, resp, pt, tp, serpapi, ai, config, accounts>>

\* The response of the finished request r; its worker is free again.
respond(r) ==
    /\ requests[r].stage = "done"
    /\ resp' = Resp(requests[r].handler, requests[r].outcome, requests[r].user_id,
                    requests[r].game_id, {})
    /\ requests' = [requests EXCEPT ![r] = RequestIdle]
    /\ UNCHANGED <<highlights, now, games, predictions, pt, tp, serpapi, ai, config, accounts,
                   tournament>>

(***************************************************************************)
(* Prediction management by the administrator: admin_manage_prediction     *)
(***************************************************************************)

\* admin_manage_prediction: the administrator creates or changes a user's
\* prediction at any time, and scores it when the game is finished.
admin_manage_prediction(user_id, game_id, team1_score, team2_score) ==
    LET v == IF user_id = None THEN "missing"
             ELSE validate_form(game_id, team1_score, team2_score)
        answer(status) == Resp("admin_manage_prediction", status, 1, game_id, {})
    IN IF v \notin {"ok", "not_found"}
       THEN /\ resp' = answer(v)
            /\ UNCHANGED <<now, games, predictions, pt, tp, serpapi, ai, config, othervars>>
       ELSE IF user_id \notin Users
       THEN /\ resp' = answer("user_not_found")
            /\ UNCHANGED <<now, games, predictions, pt, tp, serpapi, ai, config, othervars>>
       ELSE IF v = "not_found"
       THEN /\ resp' = answer("not_found")
            /\ UNCHANGED <<now, games, predictions, pt, tp, serpapi, ai, config, othervars>>
       ELSE LET game == games[game_id]
                existing == filter_by_user_game(predictions, user_id, game_id)
                winner == predicted_winner(game, team1_score, team2_score)
                changed == [(IF existing # {}
                             THEN first(existing)
                             ELSE [user_id |-> user_id, game_id |-> game_id,
                                   team1_score |-> None, team2_score |-> None,
                                   predicted_winner |-> NoTeam, points |-> None])
                               EXCEPT !.team1_score = team1_score,
                                      !.team2_score = team2_score,
                                      !.predicted_winner = winner]
                row == IF game.is_finished
                       THEN [changed EXCEPT !.points = calculate_points(changed, game)]
                       ELSE changed
            IN /\ predictions' = IF existing # {}
                                 THEN session_update(predictions, first(existing), row)
                                 ELSE session_add(predictions, row)
               /\ resp' = answer(IF existing # {} THEN "updated" ELSE "created")
               /\ UNCHANGED <<now, games, pt, tp, serpapi, ai, config, othervars>>

(***************************************************************************)
(* Manual result search: manual_result_search                              *)
(***************************************************************************)

\* The test search writing the result it found to the game.
test_searched_game_with_result(game, result) ==
    [with_result(game, result.team1_score, result.team2_score)
        EXCEPT !.result_source = result.source, !.serpapi_search_used = TRUE]

\* The game after a test search that found a result: only marked as having
\* used the search.
test_searched_game(game, result) == [game EXCEPT !.serpapi_search_used = TRUE]

\* manual_result_search.  In test mode the handler calls search_game_result
\* and then usage.increment_usage() itself, result or not; otherwise it
\* calls update_game_with_result(game_id, force=True), whose answer it
\* passes on.  The test answer records whether the search went on to its
\* queries.
manual_result_search(game_id, test_mode, run) ==
    LET answer(status, queried) ==
            Resp("manual_result_search", status, 1, game_id, {})
               @@ [force |-> TRUE, searched |-> queried]
        found == search_volleyball_result(serpapi, run)
    IN IF game_id \notin GameIds
       THEN /\ resp' = answer("not_found", FALSE)
            /\ UNCHANGED <<now, games, predictions, serpapi, pt, tp, ai, config, othervars>>
       ELSE IF ~test_mode /\ games[game_id].is_finished
       THEN /\ resp' = answer("already_finished", FALSE)
            /\ UNCHANGED <<now, games, predictions, serpapi, pt, tp, ai, config, othervars>>
       ELSE IF ~can_make_search(serpapi.searches_used)
       THEN /\ resp' = answer("limit_reached", FALSE)
            /\ UNCHANGED <<now, games, predictions, serpapi, pt, tp, ai, config, othervars>>
       ELSE IF test_mode
       THEN /\ serpapi' = [serpapi EXCEPT !.searches_used = found.searches_used + 1]
            /\ games' = IF found.result # NoResult
                        THEN [games EXCEPT ![game_id] = test_searched_game(@, found.result)]
                        ELSE games
            /\ resp' = answer(IF found.result # NoResult THEN "test_found" ELSE "test_none",
                              serpapi.configured)
            /\ UNCHANGED <<now, predictions, pt, tp, ai, config, othervars>>
       ELSE update_game_with_result(game_id, TRUE, run)

(***************************************************************************)
(* Podium deadline and results: set_tournament_config,                     *)
(* set_tournament_results                                                  *)
(***************************************************************************)

\* set_tournament_config: the deadline of the config row is set, the row
\* created when there is none; None is the form without a deadline.
set_tournament_config(deadline) ==
    /\ IF deadline = None
       THEN /\ resp' = Answer("set_tournament_config", "missing", 1)
            /\ UNCHANGED tournament
       ELSE /\ tournament' = [tournament EXCEPT !.prediction_deadline = deadline]
            /\ resp' = Answer("set_tournament_config", "saved", 1)
    /\ UNCHANGED <<highlights, now, games, predictions, pt, tp, serpapi, ai, config, accounts,
                   requests>>

\* prediction.points_earned = calculate_tournament_points(prediction,
\* tournament_config) for every TournamentPrediction.
finalized_rows(rows, results) ==
    update_rows([r \in BagToSet(rows) |->
                    [r EXCEPT !.points_earned = calculate_tournament_points(r, results)]],
                rows)

\* set_tournament_results: the three results are stored, the config is
\* finalized and every podium prediction is scored.  No deadline is tested.
set_tournament_results(form) ==
    LET results == [first_place_result |-> form[1], second_place_result |-> form[2],
                    third_place_result |-> form[3], is_finalized |-> TRUE]
    IN /\ IF ~all_selected(form)
          THEN /\ resp' = Answer("set_tournament_results", "missing", 1)
               /\ UNCHANGED tournament
          ELSE IF ~three_different(form)
          THEN /\ resp' = Answer("set_tournament_results", "duplicate", 1)
               /\ UNCHANGED tournament
          ELSE IF tournament.prediction_deadline = None
          THEN /\ resp' = Answer("set_tournament_results", "not_found", 1)
               /\ UNCHANGED tournament
          ELSE /\ tournament' =
                     [tournament EXCEPT !.results = results,
                                        !.predictions = finalized_rows(@, results)]
               /\ resp' = Answer("set_tournament_results", "finalized", 1)
       /\ UNCHANGED <<highlights, now, games, predictions, pt, tp, serpapi, ai, config,
                      accounts, requests>>

(***************************************************************************)
(* Highlight rows: auto_detect_highlights, highlights, add_highlight       *)
(***************************************************************************)

\* No GameHighlight row.
HighlightsIdle == EmptyBag

\* What search_game_highlights returns for a game: video ids, no id twice
\* (the search deduplicates), best first.
FoundVideos == {<<>>, <<"match">>, <<"moments">>, <<"match", "moments">>}

\* GameHighlight(game_id, youtube_video_id, auto_detected)
GameHighlight(game_id, video_id, auto_detected) ==
    [game_id |-> game_id, youtube_video_id |-> video_id, is_active |-> TRUE,
     auto_detected |-> auto_detected]

\* The n most recent finished games, the latest first.
recent_games(gs, n) ==
    LET ascending == order_by_game_date(gs, finished_games(gs))
        latest_first == [i \in 1..Len(ascending) |-> ascending[Len(ascending) + 1 - i]]
    IN SubSeq(latest_first, 1, Min(n, Len(latest_first)))

\* The first of the games in order that have no highlight row, at most 2.
RECURSIVE games_without_highlights(_, _, _)
games_without_highlights(rows, recent, taken) ==
    IF recent = <<>> \/ taken >= 2 THEN <<>>
    ELSE IF \E r \in BagToSet(rows) : r.game_id = Head(recent)
    THEN games_without_highlights(rows, Tail(recent), taken)
    ELSE <<Head(recent)>> \o games_without_highlights(rows, Tail(recent), taken + 1)

\* GameHighlight.query.filter_by(youtube_video_id=...).first() is not None
video_exists(rows, video_id) == \E r \in BagToSet(rows) : r.youtube_video_id = video_id

\* The job's loop over videos[:3] of one game: a video whose id a row
\* already holds (a row just added included) is skipped.
RECURSIVE save_new_videos(_, _, _)
save_new_videos(rows, game_id, videos) ==
    IF videos = <<>> THEN rows
    ELSE save_new_videos(IF video_exists(rows, Head(videos)) THEN rows
                         ELSE session_add(rows, GameHighlight(game_id, Head(videos), TRUE)),
                         game_id, Tail(videos))

\* The page's loop over videos[:3] of one game: every video is saved.
RECURSIVE save_videos(_, _, _)
save_videos(rows, game_id, videos) ==
    IF videos = <<>> THEN rows
    ELSE save_videos(session_add(rows, GameHighlight(game_id, Head(videos), TRUE)),
                     game_id, Tail(videos))

\* The job's loop over the games without highlights.
RECURSIVE detect_for_games(_, _, _)
detect_for_games(rows, pending, found) ==
    IF pending = <<>> THEN rows
    ELSE detect_for_games(
            save_new_videos(rows, Head(pending),
                            SubSeq(found[Head(pending)], 1, Min(3, Len(found[Head(pending)])))),
            Tail(pending), found)

\* auto_detect_highlights, by the scheduler or trigger_highlight_detection;
\* found[g] is what the search returns for game g.
auto_detect_highlights(api_key, found) ==
    /\ highlights' =
          IF ~api_key THEN highlights
          ELSE detect_for_games(highlights,
                                games_without_highlights(highlights, recent_games(games, 5), 0),
                                found)
    /\ resp' = Answer("auto_detect_highlights", "done", 1)
    /\ UNCHANGED <<now, games, predictions, pt, tp, serpapi, ai, config, accounts,
                   tournament, requests>>

\* The page's loop over the 2 most recent finished games: a game without
\* active highlights gets the top 3 of its search saved.
RECURSIVE save_for_recent_games(_, _, _)
save_for_recent_games(rows, recent, found) ==
    IF recent = <<>> THEN rows
    ELSE save_for_recent_games(
            IF \E r \in BagToSet(rows) : r.game_id = Head(recent) /\ r.is_active
            THEN rows
            ELSE save_videos(rows, Head(recent),
                             SubSeq(found[Head(recent)], 1, Min(3, Len(found[Head(recent)])))),
            Tail(recent), found)

\* highlights: the highlights page.
highlights_page(user_id, found) ==
    /\ highlights' = save_for_recent_games(highlights, recent_games(games, 2), found)
    /\ resp' = Answer("highlights", "rendered", user_id)
    /\ UNCHANGED <<now, games, predictions, pt, tp, serpapi, ai, config, accounts,
                   tournament, requests>>

\* add_highlight: the administrator adds a video by its URL; video_id is
\* the id extracted from the URL.
add_highlight(game_id, video_id) ==
    /\ IF game_id \notin DOMAIN games
       THEN /\ resp' = Answer("add_highlight", "not_found", 1)
            /\ UNCHANGED highlights
       ELSE IF video_exists(highlights, video_id)
       THEN /\ resp' = Answer("add_highlight", "already_added", 1)
            /\ UNCHANGED highlights
       ELSE /\ highlights' = session_add(highlights, GameHighlight(game_id, video_id, FALSE))
            /\ resp' = Answer("add_highlight", "added", 1)
    /\ UNCHANGED <<now, games, predictions, pt, tp, serpapi, ai, config, accounts,
                   tournament, requests>>

(***************************************************************************)
(* Registration: register, split at its reads and its commit               *)
(***************************************************************************)

\* The forms submitted: <<name, email, password, confirm_password>>.
RegisterForms ==
    {<<"ann", "a@x", "hunter22", "hunter22">>, <<"bob", "b@x", "hunter22", "hunter22">>,
     <<"ann", "b@x", "hunter22", "hunter22">>, <<"bob", "b@x", "abc12", "abc12">>,
     <<"bob", "b@x", "hunter22", "secret">>}

\* User(name, email), is_admin False unless the handler sets it.
User(name, email, admin) == [name |-> name, email |-> email, is_admin |-> admin]

\* register up to db.session.add: the checks of the form, the lookups of
\* the email and of the name, and User.query.count() == 0, which decides
\* is_admin.  Here `accounts` is the User table, a sequence of rows.
register_read(r, form) ==
    LET started == [RequestIdle EXCEPT !.stage = "read", !.handler = "register",
                                       !.form = form]
                      @@ [is_admin |-> Len(accounts) = 0]
    IN /\ requests[r].stage = "idle"
       /\ requests' =
             [requests EXCEPT ![r] =
                 IF \E i \in 1..4 : form[i] = "" THEN Done(started, "missing")
                 ELSE IF form[3] # form[4] THEN Done(started, "mismatch")
                 ELSE IF len(form[3]) < 6 THEN Done(started, "too_short")
                 ELSE IF \E i \in 1..Len(accounts) : accounts[i].email = form[2]
                 THEN Done(started, "email_registered")
                 ELSE IF \E i \in 1..Len(accounts) : accounts[i].name = form[1]
                 THEN Done(started, "name_taken")
                 ELSE started]
       /\ UNCHANGED <<now, games, predictions, resp, pt, tp, serpapi, ai, config,
                      accounts, tournament, highlights>>

\* db.session.commit() of register: the INSERT is refused when a row holds
\* the name or the email (both columns are unique).
register_commit(r) ==
    LET form == requests[r].form
        taken == \E i \in 1..Len(accounts) :
                    accounts[i].name = form[1] \/ accounts[i].email = form[2]
    IN /\ requests[r].stage = "read"
       /\ requests[r].handler = "register"
       /\ IF taken
          THEN /\ requests' = [requests EXCEPT ![r] = Done(@, "integrity_error")]
               /\ UNCHANGED accounts
          ELSE /\ accounts' = Append(accounts, User(form[1], form[2], requests[r].is_admin))
               /\ requests' = [requests EXCEPT ![r] = Done(@, "registered")]
       /\ UNCHANGED <<now, games, predictions, resp, pt, tp, serpapi, ai, config,
                      tournament, highlights>>

(***************************************************************************)
(* The scheduled job: auto_update_results                                  *)
(***************************************************************************)

\* timedelta(hours=3) of auto_update_results.
three_hours == 3

\* .limit(5) of the query of auto_update_results.
games_per_run == 5

\* get_monthly_usage_info: can_search is SerpApiUsage.can_make_search of the
\* month's row, whether or not the client is configured.
get_monthly_usage_info(api) ==
    [searches_used |-> api.searches_used, monthly_limit |-> monthly_limit,
     can_search |-> can_make_search(api.searches_used)]

\* The filter of the query without Game.auto_update_attempted == False.
pending_games_with_attempted(gs, t) ==
    {g \in DOMAIN gs : ~gs[g].is_finished /\ gs[g].game_date <= t - three_hours}

\* The filter of the query of auto_update_results: not finished, not
\* attempted, started three hours ago or earlier.
pending_games(gs, t) ==
    {g \in DOMAIN gs : /\ ~gs[g].is_finished
                       /\ ~gs[g].auto_update_attempted
                       /\ gs[g].game_date <= t - three_hours}

\* The rows a query with .limit(games_per_run) and no order_by may return:
\* all the pending games if they are few, else any games_per_run of them.
limited(pending) ==
    {batch \in SUBSET pending :
        Cardinality(batch) = IF Cardinality(pending) <= games_per_run
                             THEN Cardinality(pending) ELSE games_per_run}

\* update_game_with_result(game.id, force=False) on the tables
\* s = [games, predictions, serpapi], as the loop of the job calls it.
updated_with_result(s, game_id, run) ==
    IF game_id \notin DOMAIN s.games THEN s
    ELSE IF s.games[game_id].is_finished THEN s
    ELSE IF already_attempted(s.games[game_id], FALSE) THEN s
    ELSE LET found == search_volleyball_result(s.serpapi, run)
             result == found.result
             game == [with_result(s.games[game_id], result.team1_score,
                                  result.team2_score)
                         EXCEPT !.result_source = result.source,
                                !.serpapi_search_used = TRUE,
                                !.auto_update_attempted = TRUE]
             api == [s.serpapi EXCEPT !.searches_used = found.searches_used]
         IN IF result = NoResult
            THEN [games |-> [s.games EXCEPT ![game_id].auto_update_attempted = TRUE],
                  predictions |-> s.predictions, serpapi |-> api]
            ELSE [games |-> [s.games EXCEPT ![game_id] = game],
                  predictions |-> rescore_game(s.predictions, game_id, game),
                  serpapi |-> api]

\* for game in pending_games: update_game_with_result(game.id, force=False),
\* in the order of the ids; found[g] is what the searches for game g return.
\* The tables after one game are computed once and handed to the next.
RECURSIVE update_each(_, _, _)
update_each(s, batch, found) ==
    IF batch = {} THEN s
    ELSE LET g == CHOOSE x \in batch : \A y \in batch : x <= y
             rest == {update_each(t, batch \ {g}, found) :
                         t \in {updated_with_result(s, g, found[g])}}
         IN CHOOSE after \in rest : TRUE

\* auto_update_results: one run of the job.  The answer records the games
\* the query returned.
auto_update_results(batch, found) ==
    LET usage_info == get_monthly_usage_info(serpapi)
        s == update_each([games |-> games, predictions |-> predictions,
                          serpapi |-> serpapi], batch, found)
    IN /\ batch \in limited(pending_games(games, now))
       /\ IF batch = {}
          THEN /\ resp' = Resp("auto_update_results", "none_pending", 1, NoGame, batch)
               /\ UNCHANGED <<games, predictions, serpapi>>
          ELSE IF ~usage_info.can_search
          THEN /\ resp' = Resp("auto_update_results", "limit_reached", 1, NoGame, batch)
               /\ UNCHANGED <<games, predictions, serpapi>>
          ELSE /\ resp' = Resp("auto_update_results", "updated", 1, NoGame, batch)
               /\ games' = s.games
               /\ predictions' = s.predictions
               /\ serpapi' = s.serpapi
       /\ UNCHANGED <<now, pt, tp, ai, config, othervars>>

AiIdle ==
    [available |-> FALSE, calls_made |-> 0, rows |-> [u \in Users |-> NoRow],
     performance_hash |-> [u \in Users |-> "p1"],
     latest_results_hash |-> [u \in Users |-> NoHash]]

SerpapiIdle == [configured |-> FALSE, searches_used |-> 0]


\* RecalculationConfig(default_points_position=1)
DefaultPosition == 1

\* The result forms the administrator submits: a valid result and an invalid one.
ResultForms == {<<3, 1>>, <<3, 3>>}

\* Time passing between requests.
Tick ==
    /\ now < MaxTime
    /\ now' = now + 1
    /\ UNCHANGED <<games, predictions, resp, pt, tp, serpapi, ai, config, othervars>>

DbIdle ==
    /\ now = 0
    /\ games = [g \in GameIds |-> NewGame(fixture_date(g), fixture_deadline(g))]
    /\ predictions = EmptyBag
    /\ resp = RespIdle
    /\ serpapi = SerpapiIdle
    /\ ai = AiIdle
    /\ config = DefaultPosition
    /\ accounts = AccountsIdle
    /\ tournament = TournamentIdle
    /\ requests = RequestsIdle
    /\ highlights = HighlightsIdle

(***************************************************************************)
(* Specifications of the two scoring functions                             *)
(***************************************************************************)

InitPoints ==
    /\ pt \in [prediction : ScoredPredictions, game : ScoredGames, scored : {FALSE}]
    /\ tp = TpIdle
    /\ DbIdle

NextPoints == ScorePrediction

SpecPoints == InitPoints /\ [][NextPoints]_vars

InitPodium ==
    /\ tp \in [prediction : PodiumPredictions, config : TournamentConfigs, scored : {FALSE}]
    /\ pt = PtIdle
    /\ DbIdle

NextPodium == ScorePodium

SpecPodium == InitPodium /\ [][NextPodium]_vars

(***************************************************************************)
(* Specification of prediction intake and the read endpoints               *)
(***************************************************************************)

\* The uploaded games, some already given a result by the administrator
\* (update_result checks no time); no predictions yet.
InitIntake ==
    /\ pt = PtIdle
    /\ tp = TpIdle
    /\ now = 0
    /\ games \in [GameIds -> UNION {{NewGame(fixture_date(g), fixture_deadline(g)),
                                     with_result(NewGame(fixture_date(g), fixture_deadline(g)),
                                                 3, 1)} : g \in GameIds}]
    /\ \A g \in GameIds : games[g].prediction_deadline = fixture_deadline(g)
    /\ predictions = EmptyBag
    /\ resp = RespIdle
    /\ serpapi = SerpapiIdle
    /\ ai = AiIdle
    /\ config = DefaultPosition
    /\ accounts = AccountsIdle
    /\ tournament = TournamentIdle
    /\ requests = RequestsIdle
    /\ highlights = HighlightsIdle

NextIntake ==
    \/ Tick
    \/ \E u \in Users, g \in GameIds \cup {NoGame}, f \in FormScores :
            make_prediction(u, g, f[1], f[2])
    \/ \E u \in Users, g \in GameIds \cup {NoGame}, f \in FormScores :
            save_prediction_ajax(u, g, f[1], f[2])

SpecIntake == InitIntake /\ [][NextIntake]_vars

(***************************************************************************)
(* Specification of the read endpoints                                     *)
(***************************************************************************)

\* A prediction as intake stores it.
StoredPrediction(user_id, game_id, f) ==
    [user_id |-> user_id, game_id |-> game_id, team1_score |-> f[1], team2_score |-> f[2],
     predicted_winner |-> predicted_winner(NewGame(0, 0), f[1], f[2]), points |-> None]

\* The uploaded games, some already given a result; every player has
\* predicted some of the games before their deadlines.
InitReads ==
    /\ pt = PtIdle
    /\ tp = TpIdle
    /\ now = 0
    /\ games \in [GameIds -> UNION {{NewGame(fixture_date(g), fixture_deadline(g)),
                                     with_result(NewGame(fixture_date(g), fixture_deadline(g)),
                                                 3, 1)} : g \in GameIds}]
    /\ \A g \in GameIds : games[g].prediction_deadline = fixture_deadline(g)
    /\ \E chosen \in SUBSET (Users \X GameIds) :
          \E f \in [chosen -> FormScores \cap ValidScores] :
              predictions = SetToBag({StoredPrediction(c[1], c[2], f[c]) : c \in chosen})
    /\ resp = RespIdle
    /\ serpapi = SerpapiIdle
    /\ ai = AiIdle
    /\ config = DefaultPosition
    /\ accounts = AccountsIdle
    /\ tournament = TournamentIdle
    /\ requests = RequestsIdle
    /\ highlights = HighlightsIdle

NextReads ==
    \/ Tick
    \/ \E u \in Users, g \in GameIds \cup {NoGame} : game_predictions(u, g)
    \/ \E u \in Users, g \in GameIds \cup {NoGame} : match_detail(u, g)
    \/ \E u \in Users, v \in Users : user_profile(u, v)
    \/ \E u \in Users : all_predictions(u)

SpecReads == InitReads /\ [][NextReads]_vars

(***************************************************************************)
(* Specification of result entry: by the administrator and by search       *)
(***************************************************************************)

SearchHeadroom == 2

\* The uploaded games without results; the players have predicted some of
\* them; the search client is configured or not, and this month's usage is
\* within SearchHeadroom searches of the monthly limit.
InitResults ==
    /\ pt = PtIdle
    /\ tp = TpIdle
    /\ now = 0
    /\ games = [g \in GameIds |-> NewGame(fixture_date(g), fixture_deadline(g))]
    /\ \E chosen \in SUBSET (Users \X GameIds) :
          predictions = SetToBag({StoredPrediction(c[1], c[2],
                                                   IF c[1] = 1 THEN <<3, 0>> ELSE <<1, 3>>) :
                                     c \in chosen})
    /\ resp = RespIdle
    /\ serpapi \in [configured : BOOLEAN,
                    searches_used : (monthly_limit - SearchHeadroom)..monthly_limit]
    /\ ai = AiIdle
    /\ config = DefaultPosition
    /\ accounts = AccountsIdle
    /\ tournament = TournamentIdle
    /\ requests = RequestsIdle
    /\ highlights = HighlightsIdle

NextResults ==
    \/ \E g \in GameIds \cup {NoGame}, f \in ResultForms : update_result(g, f[1], f[2])
    \/ \E g \in GameIds \cup {NoGame}, force \in BOOLEAN, run \in SearchRuns :
            update_game_with_result(g, force, run)

SpecResults == InitResults /\ [][NextResults]_vars

(***************************************************************************)
(* Specification of the default-points recalculation                       *)
(***************************************************************************)

\* What a player has for a game before a recalculation: no row, a real
\* prediction not scored yet (3-2, 3-0 or 0-3), or a placeholder an earlier
\* recalculation left.
RecalcCells == {"none", "exact", "sweep", "loss", "placeholder"}

CellRow(user_id, game_id, cell) ==
    CASE cell = "exact" -> StoredPrediction(user_id, game_id, <<3, 2>>)
      [] cell = "sweep" -> StoredPrediction(user_id, game_id, <<3, 0>>)
      [] cell = "loss" -> StoredPrediction(user_id, game_id, <<0, 3>>)
      [] cell = "placeholder" -> placeholder(user_id, game_id, 4)

\* The games without results, or the first one finished 3-2; the players'
\* rows for the first game (the last player's a placeholder if any), and for
\* the last game at most a prediction of player 1.
InitRecalc ==
    /\ pt = PtIdle
    /\ tp = TpIdle
    /\ now = 0
    /\ \E finished \in BOOLEAN :
          games = [g \in GameIds |->
                      IF finished /\ g = 1
                      THEN with_result(NewGame(fixture_date(g), fixture_deadline(g)), 3, 2)
                      ELSE NewGame(fixture_date(g), fixture_deadline(g))]
    /\ \E cell \in [all_users -> RecalcCells], other \in {"none", "sweep"} :
          /\ \A u \in all_users : cell[u] = "placeholder" => u = NumPlayers
          /\ cell[NumPlayers] \in {"none", "placeholder"}
          /\ predictions =
                SetToBag({CellRow(u, 1, cell[u]) :
                             u \in {u \in all_users : cell[u] # "none"}}
                         \cup {CellRow(1, NumGames, other) : x \in {other} \ {"none"}})
    /\ resp = RespIdle
    /\ serpapi = SerpapiIdle
    /\ ai = AiIdle
    /\ config = DefaultPosition
    /\ accounts = AccountsIdle
    /\ tournament = TournamentIdle
    /\ requests = RequestsIdle
    /\ highlights = HighlightsIdle

\* The positions the administrator submits: an invalid one, the worst, the
\* second worst, and one beyond the number of players.
Positions == {0, 1, 2, MaxPosition}

NextRecalc ==
    \/ \E n_position \in Positions, fail_at \in FailPoints :
            admin_recalculate_points(n_position, fail_at)
    \/ \E g \in GameIds \cup {NoGame}, f \in ResultForms : update_result(g, f[1], f[2])

SpecRecalc == InitRecalc /\ [][NextRecalc]_vars

(***************************************************************************)
(* Specification of the player messages                                    *)
(***************************************************************************)

CallHeadroom == 2

\* A row cached cache_duration_hours - 1 hours ago, viewed or not.
EarlierRow(viewed) ==
    [present |-> TRUE, message_text |-> "gemini1", performance_hash |-> "p1",
     latest_results_hash |-> NoHash, created_at |-> 1 - cache_duration_hours,
     expires_at |-> 1, viewed |-> viewed]

\* The hashes of a player as results come in: no visible result, then the
\* latest one missed or predicted correctly.
HashPairs == {<<"p1", NoHash>>, <<"p2", "missed">>, <<"p2", "nailed">>}

\* The generative service is configured or not; today's calls are within
\* CallHeadroom of the daily limit; the first player has no message yet or
\* one of an earlier day.
InitMessage ==
    /\ pt = PtIdle
    /\ tp = TpIdle
    /\ now = 0
    /\ games = [g \in GameIds |-> NewGame(fixture_date(g), fixture_deadline(g))]
    /\ predictions = EmptyBag
    /\ resp = RespIdle
    /\ serpapi = SerpapiIdle
    /\ \E available \in BOOLEAN, calls_made \in (daily_limit - CallHeadroom)..daily_limit,
          row \in {NoRow, EarlierRow(TRUE), EarlierRow(FALSE)} :
          ai = [AiIdle EXCEPT !.available = available, !.calls_made = calls_made,
                              !.rows[1] = row]
    /\ config = DefaultPosition
    /\ accounts = AccountsIdle
    /\ tournament = TournamentIdle
    /\ requests = RequestsIdle
    /\ highlights = HighlightsIdle

\* The requests of the first player, the results changing that player's
\* hashes, and the calls of the other players.
NextMessage ==
    \/ Tick
    \/ \E hash_fails \in BOOLEAN, gemini \in GeminiOutcomes, choice \in TemplateTexts :
            get_user_message(1, hash_fails, gemini, choice)
    \/ \E h \in HashPairs : ResultsChange(1, h[1], h[2])
    \/ OtherPlayerCall

SpecMessage == InitMessage /\ [][NextMessage]_vars

(***************************************************************************)
(* Specification of the fixtures import                                    *)
(***************************************************************************)

\* No game yet; the administrator uploads files.
InitUpload ==
    /\ pt = PtIdle
    /\ tp = TpIdle
    /\ now = 0
    /\ games = <<>>
    /\ predictions = EmptyBag
    /\ resp = RespIdle
    /\ serpapi = SerpapiIdle
    /\ ai = AiIdle
    /\ config = DefaultPosition
    /\ accounts = AccountsIdle
    /\ tournament = TournamentIdle
    /\ requests = RequestsIdle
    /\ highlights = HighlightsIdle

NextUpload == \E is_csv \in BOOLEAN, file \in CsvFiles : upload_games(is_csv, file)

SpecUpload == InitUpload /\ [][NextUpload]_vars

(***************************************************************************)
(* Specification of the race chart                                         *)
(***************************************************************************)

\* What a player predicted for a game: nothing, 3-0 or 0-3.
ChartCells == {"none", "sweep", "loss"}

\* The games without results; every player's predictions for the first
\* game, the second player's for the last.
InitChart ==
    /\ pt = PtIdle
    /\ tp = TpIdle
    /\ now = 0
    /\ games = [g \in GameIds |-> NewGame(fixture_date(g), fixture_deadline(g))]
    /\ \E cell \in [all_users -> ChartCells], other \in ChartCells :
          predictions =
             SetToBag({CellRow(u, 1, cell[u]) : u \in {u \in all_users : cell[u] # "none"}}
                      \cup {CellRow(2, NumGames, other) : x \in {other} \ {"none"}})
    /\ resp = RespIdle
    /\ serpapi = SerpapiIdle
    /\ ai = AiIdle
    /\ config = DefaultPosition
    /\ accounts = AccountsIdle
    /\ tournament = TournamentIdle
    /\ requests = RequestsIdle
    /\ highlights = HighlightsIdle

\* Results are entered; the chart is requested, for all games or for the
\* games from the second date on.
NextChart ==
    \/ \E g \in GameIds \cup {NoGame}, f \in ResultForms : update_result(g, f[1], f[2])
    \/ \E selection \in Selections, start_date \in {0, 2} :
            get_race_chart_data(selection, start_date)

SpecChart == InitChart /\ [][NextChart]_vars

(***************************************************************************)
(* Specification of the what-if analysis                                   *)
(***************************************************************************)

\* The games without results; the predictions of the players but the last
\* for the first game, of the first two players for the last game.
InitWhatIf ==
    /\ pt = PtIdle
    /\ tp = TpIdle
    /\ now = 0
    /\ games = [g \in GameIds |-> NewGame(fixture_date(g), fixture_deadline(g))]
    /\ \E cell \in [all_users \ {NumPlayers} -> {"none", "exact", "sweep"}],
          other \in [{1, 2} -> {"none", "loss"}] :
          predictions =
             SetToBag({CellRow(u, 1, cell[u]) :
                          u \in {u \in all_users \ {NumPlayers} : cell[u] # "none"}}
                      \cup {CellRow(u, NumGames, other[u]) :
                               u \in {u \in {1, 2} : other[u] # "none"}})
    /\ resp = RespIdle
    /\ serpapi = SerpapiIdle
    /\ ai = AiIdle
    /\ config = DefaultPosition
    /\ accounts = AccountsIdle
    /\ tournament = TournamentIdle
    /\ requests = RequestsIdle
    /\ highlights = HighlightsIdle

\* Time passes, results are entered, the points are recalculated with the
\* default position (placeholders are given to the players without a
\* prediction), the analysis is requested.
NextWhatIf ==
    \/ Tick
    \/ \E g \in GameIds \cup {NoGame}, f \in ResultForms : update_result(g, f[1], f[2])
    \/ admin_recalculate_points(DefaultPosition, 0)
    \/ potential_points

SpecWhatIf == InitWhatIf /\ [][NextWhatIf]_vars

(***************************************************************************)
(* Specification of the highlight search                                   *)
(***************************************************************************)

\* The uploaded games; highlights are searched for a game, or for a game
\* that does not exist.
InitHighlights ==
    /\ pt = PtIdle
    /\ tp = TpIdle
    /\ DbIdle

NextHighlights ==
    \E game_id \in {1, NoGame}, available \in BOOLEAN,
       results \in [1..QueriesIssued -> QueryResults] :
          search_game_highlights(game_id, available, results)

SpecHighlights == InitHighlights /\ [][NextHighlights]_vars

(***************************************************************************)
(* Specification of the accounts                                           *)
(***************************************************************************)

InitAccounts ==
    /\ pt = PtIdle
    /\ tp = TpIdle
    /\ DbIdle

\* The requests of the users: pages, predictions for the first game, the
\* account forms, and the administrator's password resets.
NextAccounts ==
    \E u \in Users :
       \/ request(u, "index", FALSE, index(u))
       \/ \E f \in {<<3, 1>>, <<3, 3>>} :
             request(u, "make_prediction", TRUE, make_prediction(u, 1, f[1], f[2]))
       \/ \E password \in Passwords : request(u, "login", FALSE, login(u, password))
       \/ request(u, "logout", TRUE, logout(u))
       \/ \E new_password \in Passwords, confirm_password \in Passwords :
             request(u, "change_password", TRUE,
                     change_password(u, new_password, confirm_password))
       \/ \E target \in Users \cup {NumUsers + 1} :
             request(u, "reset_user_password", TRUE, reset_user_password(u, target))

SpecAccounts == InitAccounts /\ [][NextAccounts]_vars

(***************************************************************************)
(* Specification of the podium predictions                                 *)
(***************************************************************************)

\* The podium deadline the administrator configured, if any; no podium
\* prediction yet.
InitTournament ==
    /\ pt = PtIdle
    /\ tp = TpIdle
    /\ now = 0
    /\ games = [g \in GameIds |-> NewGame(fixture_date(g), fixture_deadline(g))]
    /\ predictions = EmptyBag
    /\ resp = RespIdle
    /\ serpapi = SerpapiIdle
    /\ ai = AiIdle
    /\ config = DefaultPosition
    /\ accounts = AccountsIdle
    /\ \E deadline \in {None, MaxTime - 1} :
          tournament = [TournamentIdle EXCEPT !.prediction_deadline = deadline]
    /\ requests = RequestsIdle
    /\ highlights = HighlightsIdle

NextTournament ==
    \/ Tick
    \/ \E u \in Users, form \in PodiumForms : tournament_predictions(u, form)

SpecTournament == InitTournament /\ [][NextTournament]_vars

(***************************************************************************)
(* Specification of the concurrent submissions                             *)
(***************************************************************************)

\* The uploaded games and the podium deadline; no predictions yet, every
\* worker free.
InitConcurrent ==
    /\ pt = PtIdle
    /\ tp = TpIdle
    /\ now = 0
    /\ games = [g \in GameIds |-> NewGame(fixture_date(g), fixture_deadline(g))]
    /\ predictions = EmptyBag
    /\ resp = RespIdle
    /\ serpapi = SerpapiIdle
    /\ ai = AiIdle
    /\ config = DefaultPosition
    /\ accounts = AccountsIdle
    /\ tournament = [TournamentIdle EXCEPT !.prediction_deadline = MaxTime - 1]
    /\ requests = RequestsIdle
    /\ highlights = HighlightsIdle

\* The requests of one burst: no time passes between them.
NextConcurrent ==
    \/ \E r \in Requests, handler \in PredictionHandlers, u \in Users,
          g \in ConcurrentGames, f \in ConcurrentScores : read_existing_prediction(r, handler, u, g, f)
    \/ \E r \in Requests, u \in Users, f \in ConcurrentPodiums :
          read_existing_tournament_prediction(r, u, f)
    \/ \E r \in Requests : session_commit(r)
    \/ \E r \in Requests : respond(r)

SpecConcurrent == InitConcurrent /\ [][NextConcurrent]_vars

(***************************************************************************)
(* Specification of the scores ledger: results and predictions together    *)
(***************************************************************************)

\* The games whose results and predictions the ledger follows.
LedgerGames == {1}

\* The searches of the ledger: the first query finds nothing usable or a
\* result.
LedgerRuns == {run \in SearchRuns : \A i \in 1..NumQueries : run[i] = run[1]}

\* The uploaded games without results, no prediction, the search client
\* configured and well within its monthly limit.
InitLedger ==
    /\ pt = PtIdle
    /\ tp = TpIdle
    /\ now = 0
    /\ games = [g \in GameIds |-> NewGame(fixture_date(g), fixture_deadline(g))]
    /\ predictions = EmptyBag
    /\ resp = RespIdle
    /\ serpapi = [configured |-> TRUE, searches_used |-> monthly_limit - 1]
    /\ ai = AiIdle
    /\ config = DefaultPosition
    /\ accounts = AccountsIdle
    /\ tournament = TournamentIdle
    /\ requests = RequestsIdle
    /\ highlights = HighlightsIdle

NextLedger ==
    \/ Tick
    \/ \E g \in LedgerGames, f \in ResultForms : update_result(g, f[1], f[2])
    \/ \E g \in LedgerGames, force \in BOOLEAN, run \in LedgerRuns :
            update_game_with_result(g, force, run)
    \/ \E u \in Users, g \in LedgerGames : admin_manage_prediction(u, g, 3, 1)
    \/ \E u \in Users, g \in LedgerGames, f \in {<<3, 0>>, <<1, 3>>} :
            make_prediction(u, g, f[1], f[2])

SpecLedger == InitLedger /\ [][NextLedger]_vars

(***************************************************************************)
(* Specification of the searches: scheduled, forced and manual             *)
(***************************************************************************)

\* The uploaded games without results, both players' predictions for the
\* first game; the search client configured or not, this month's usage
\* within SearchHeadroom searches of the monthly limit.
InitSearches ==
    /\ pt = PtIdle
    /\ tp = TpIdle
    /\ now = 0
    /\ games = [g \in GameIds |-> NewGame(fixture_date(g), fixture_deadline(g))]
    /\ predictions = SetToBag({StoredPrediction(u, 1, IF u = 1 THEN <<3, 0>> ELSE <<1, 3>>) :
                                  u \in Users})
    /\ resp = RespIdle
    /\ serpapi \in [configured : BOOLEAN,
                    searches_used : (monthly_limit - SearchHeadroom)..monthly_limit]
    /\ ai = AiIdle
    /\ config = DefaultPosition
    /\ accounts = AccountsIdle
    /\ tournament = TournamentIdle
    /\ requests = RequestsIdle
    /\ highlights = HighlightsIdle

NextSearches ==
    \/ \E f \in ResultForms : update_result(1, f[1], f[2])
    \/ \E g \in GameIds, run \in SearchRuns : update_game_with_result(g, FALSE, run)
    \/ \E g \in GameIds \cup {NoGame}, test_mode \in BOOLEAN, run \in SearchRuns :
            manual_result_search(g, test_mode, run)

SpecSearches == InitSearches /\ [][NextSearches]_vars

(***************************************************************************)
(* Specification of the podium results                                     *)
(***************************************************************************)

\* The podiums the players and the administrator submit.
FinalPodiums == {<<"A", "B", "C">>, <<"B", "A", "C">>}

\* No config row and no podium prediction yet.
InitFinals ==
    /\ pt = PtIdle
    /\ tp = TpIdle
    /\ DbIdle

NextFinals ==
    \/ Tick
    \/ \E deadline \in {None, 1, MaxTime} : set_tournament_config(deadline)
    \/ \E form \in FinalPodiums \cup {<<"A", "A", "C">>} : set_tournament_results(form)
    \/ \E u \in Users, form \in FinalPodiums : tournament_predictions(u, form)

SpecFinals == InitFinals /\ [][NextFinals]_vars

(***************************************************************************)
(* Specification of the highlight rows                                     *)
(***************************************************************************)

\* The uploaded games without results and without highlights.
InitGallery ==
    /\ pt = PtIdle
    /\ tp = TpIdle
    /\ DbIdle

NextGallery ==
    \/ \E g \in GameIds : update_result(g, 3, 1)
    \/ \E api_key \in BOOLEAN, found \in [GameIds -> FoundVideos] :
          auto_detect_highlights(api_key, found)
    \/ \E found \in [GameIds -> FoundVideos] : highlights_page(1, found)
    \/ \E g \in GameIds \cup {NoGame}, video_id \in {"match", "manual"} :
          add_highlight(g, video_id)

SpecGallery == InitGallery /\ [][NextGallery]_vars

(***************************************************************************)
(* Specification of the concurrent registrations                           *)
(***************************************************************************)

\* The User table empty, every worker free.
InitRegister ==
    /\ pt = PtIdle
    /\ tp = TpIdle
    /\ now = 0
    /\ games = [g \in GameIds |-> NewGame(fixture_date(g), fixture_deadline(g))]
    /\ predictions = EmptyBag
    /\ resp = RespIdle
    /\ serpapi = SerpapiIdle
    /\ ai = AiIdle
    /\ config = DefaultPosition
    /\ accounts = <<>>
    /\ tournament = TournamentIdle
    /\ requests = RequestsIdle
    /\ highlights = HighlightsIdle

NextRegister ==
    \/ \E r \in Requests, form \in RegisterForms : register_read(r, form)
    \/ \E r \in Requests : register_commit(r)
    \/ \E r \in Requests : respond(r)

SpecRegister == InitRegister /\ [][NextRegister]_vars

(***************************************************************************)
(* Specification of the scheduled job                                      *)
(***************************************************************************)

\* The games of the schedule: more than one run of the job can take.
NumScheduled == 7

ScheduledGames == 1..NumScheduled

\* What the searches for one game return: eight responses without a result,
\* or a result in the first response.
MissedRun == [i \in 1..NumQueries |-> [failed |-> FALSE, result |-> NoResult]]

FoundRun ==
    [i \in 1..NumQueries |->
        [failed |-> FALSE,
         result |-> [team1_score |-> 3, team2_score |-> 1,
                     source |-> "serpapi_structured"]]]

\* The games whose result is on the web during one run of the job: none,
\* every other one, or all.
ScheduledHits == {{}, {g \in ScheduledGames : g % 2 = 1}, ScheduledGames}

\* The searches left before the monthly limit at the start: ample, or fewer
\* than the games can use.
ScheduledHeadroom == {monthly_limit, NumQueries + 1}

\* The games have started at instant 0; the client is configured.
InitScheduler ==
    /\ pt = PtIdle
    /\ tp = TpIdle
    /\ now = 0
    /\ games = [g \in ScheduledGames |-> NewGame(0, 0)]
    /\ predictions = SetToBag({StoredPrediction(u, 1, IF u = 1 THEN <<3, 0>> ELSE <<1, 3>>) :
                                  u \in Users})
    /\ resp = RespIdle
    /\ serpapi \in [configured : {TRUE},
                    searches_used : {monthly_limit - h : h \in ScheduledHeadroom}]
    /\ ai = AiIdle
    /\ config = DefaultPosition
    /\ accounts = AccountsIdle
    /\ tournament = TournamentIdle
    /\ requests = RequestsIdle
    /\ highlights = HighlightsIdle

\* One run of the job, with the rows its query returns and what the
\* searches for each of them return.
RunJob ==
    \E batch \in limited(pending_games(games, now)) :
        \E hits \in ScheduledHits :
            auto_update_results(batch, [g \in batch |-> IF g \in hits THEN FoundRun
                                                                    ELSE MissedRun])

NextScheduler ==
    \/ Tick
    \/ RunJob

\* The job keeps being run: a run that would change something is not put
\* off for ever.
SpecScheduler == InitScheduler /\ [][NextScheduler]_vars /\ WF_vars(RunJob)

(***************************************************************************)
(* Claims about the two scoring functions                                  *)
(***************************************************************************)

\* C1: once a prediction has been scored, its points are absent exactly when
\* the game is unfinished or a predicted score is missing; otherwise they are
\* one of 6, 4, 2, 1, 0, each value awarded exactly in its own band of the
\* priority order: 6 exact score; 4 right winner and set difference off by
\* one; 2 right winner only; 1 wrong winner but right total of sets; 0 else.
C1_ScoringBands ==
    pt.scored =>
        LET p == pt.prediction
            g == pt.game
            out == p.points
            exact == p.team1_score = g.team1_score /\ p.team2_score = g.team2_score
            winner == (p.team1_score > p.team2_score) = (g.team1_score > g.team2_score)
            byOne == Abs((p.team1_score - p.team2_score) - (g.team1_score - g.team2_score)) = 1
            total == p.team1_score + p.team2_score = g.team1_score + g.team2_score
        IN IF ~g.is_finished \/ p.team1_score = None \/ p.team2_score = None
           THEN out = None
           ELSE /\ out \in PointValues
                /\ (out = 6) <=> exact
                /\ (out = 4) <=> (~exact /\ winner /\ byOne)
                /\ (out = 2) <=> (~exact /\ winner /\ ~byOne)
                /\ (out = 1) <=> (~exact /\ ~winner /\ total)
                /\ (out = 0) <=> (~exact /\ ~winner /\ ~total)

\* A finished 3-1 game scored against a 3-0 prediction: the 4-point band.
C1_Witness ==
    /\ pt.scored
    /\ pt.game.is_finished
    /\ pt.game.team1_score = 3 /\ pt.game.team2_score = 1
    /\ pt.prediction.team1_score = 3 /\ pt.prediction.team2_score = 0
    /\ pt.prediction.points = 4

\* Scoring of a podium prediction p against config c as the podium rules state
\* it, with `all` the total claimed for three exact picks.
PodiumRules(p, c, all) ==
    LET picks == {p.first_place, p.second_place, p.third_place}
        results == {c.first_place_result, c.second_place_result, c.third_place_result}
        bonus == (IF p.first_place = c.first_place_result THEN 15 ELSE 0)
                 + (IF p.second_place = c.second_place_result THEN 5 ELSE 0)
                 + (IF p.third_place = c.third_place_result THEN 5 ELSE 0)
    IN IF c.is_finalized /\ NoTeam \notin results
       THEN /\ Cardinality(results) = 3
                => p.points_earned = 15 * Cardinality(results \cap picks) + bonus
            /\ (p.first_place = c.first_place_result
                /\ p.second_place = c.second_place_result
                /\ p.third_place = c.third_place_result) => p.points_earned = all
            /\ (results \cap picks = {}) => p.points_earned = 0
       ELSE p.points_earned = 0

IntakeOps == {"make_prediction", "save_prediction_ajax"}

ReadOps == {"game_predictions", "match_detail", "user_profile", "all_predictions"}

\* One intake request (either handler) taking this step.
IntakeStep(u, g, f) ==
    /\ resp'.op \in IntakeOps /\ resp'.user = u /\ resp'.game_id = g
    /\ make_prediction(u, g, f[1], f[2]) \/ save_prediction_ajax(u, g, f[1], f[2])

\* C3: for both intake handlers, a submission made after the game's
\* prediction_deadline is rejected and leaves the Prediction table as it was,
\* whether or not the game has started or is finished; a submission with a
\* valid score made before the deadline is accepted and stored.
C3_DeadlineAtSubmission ==
    [][\A u \in Users, g \in GameIds, f \in FormScores :
          IntakeStep(u, g, f) =>
              /\ now > games[g].prediction_deadline
                    => /\ resp'.status = "deadline_passed" \/ f \notin ValidScores
                       /\ resp'.status \notin {"saved", "updated"}
                       /\ predictions' = predictions
              /\ (now < games[g].prediction_deadline /\ f \in ValidScores)
                    => /\ resp'.status \in {"saved", "updated"}
                       /\ \E r \in filter_by_user_game(predictions', u, g) :
                              r.team1_score = f[1] /\ r.team2_score = f[2]
      ]_vars

\* A submission rejected for its deadline on a game that has neither started
\* nor finished, while another game is already finished.
C3_Witness ==
    /\ resp.op \in IntakeOps
    /\ resp.status = "deadline_passed"
    /\ resp.game_id \in GameIds
    /\ ~games[resp.game_id].is_finished
    /\ now < games[resp.game_id].game_date
    /\ \E g \in GameIds : games[g].is_finished

\* No row shown by the last read belongs to another player and a game whose
\* deadline has not passed.
NoEarlyExposure ==
    (resp.op \in ReadOps /\ ~is_admin(resp.user)) =>
        \A r \in resp.rows :
            r.user_id # resp.user => now >= games[r.game_id].prediction_deadline

\* "Prediction open" and "predictions visible" never agree.
OpenXorVisible ==
    \A g \in GameIds :
        is_prediction_open(games[g], now) # are_predictions_visible(games[g], now)

\* At or after the deadline, the roster and the match page show every
\* prediction of the game.
VisibleFromDeadline ==
    \A u \in Users, g \in GameIds :
        (/\ resp'.op \in ReadOps /\ resp'.user = u /\ resp'.game_id = g
         /\ game_predictions(u, g) \/ match_detail(u, g)) =>
            (now >= games[g].prediction_deadline
                => resp'.status = "ok" /\ resp'.rows = filter_by_game(predictions, g))

\* C4: no read endpoint (game roster, match detail, user profile,
\* all-predictions browser) returns to a non-admin viewer another player's
\* prediction for a game whose prediction_deadline has not passed, finished
\* or not; from the deadline on the game's predictions are returned; and
\* "prediction open" (now < deadline) and "predictions visible"
\* (now >= deadline) are mutually exclusive and exhaustive.
C4_VisibilityGate ==
    /\ [](NoEarlyExposure /\ OpenXorVisible)
    /\ [][VisibleFromDeadline]_vars

\* A non-admin viewer is refused the roster of a finished game whose deadline
\* has not passed, although another player has predicted it.
C4_Witness ==
    /\ resp.op = "game_predictions"
    /\ resp.status = "forbidden"
    /\ ~is_admin(resp.user)
    /\ games[resp.game_id].is_finished
    /\ now < games[resp.game_id].prediction_deadline
    /\ \E r \in filter_by_game(predictions, resp.game_id) : r.user_id # resp.user

\* Every (user, game) has at most one row.
OneRowPerUserGame ==
    \A u \in Users, g \in GameIds : RowCount(predictions, u, g) <= 1

\* After an accepted submission the (user, game) has exactly one row, holding
\* the scores just submitted and the winner they imply.
LatestSubmissionStored ==
    \A u \in Users, g \in GameIds, f \in FormScores :
        (IntakeStep(u, g, f) /\ resp'.status \in {"saved", "updated"}) =>
            /\ RowCount(predictions', u, g) = 1
            /\ \A r \in filter_by_user_game(predictions', u, g) :
                  /\ r.team1_score = f[1]
                  /\ r.team2_score = f[2]
                  /\ r.predicted_winner = IF f[1] > f[2] THEN games[g].team1
                                          ELSE games[g].team2

\* C5: after any sequence of accepted submissions there is at most one
\* Prediction row per (user, game); a second submission updates the row in
\* place, so the stored scores and predicted_winner are the latest ones.
C5_UpsertUniqueness ==
    /\ []OneRowPerUserGame
    /\ [][LatestSubmissionStored]_vars

\* A resubmission was just accepted, and the one row of the (user, game)
\* holds 1-3.
C5_Witness ==
    /\ resp.op = "save_prediction_ajax"
    /\ resp.status = "updated"
    /\ RowCount(predictions, resp.user, resp.game_id) = 1
    /\ \E r \in filter_by_user_game(predictions, resp.user, resp.game_id) :
          r.team1_score = 1 /\ r.team2_score = 3

(***************************************************************************)
(* Claims about result entry                                               *)
(***************************************************************************)

\* C6: a game without a result has both scores absent and is not finished;
\* a finished game has both scores present and forming a valid volleyball
\* score, on every path that writes a result (manual entry, search).
C6_FinishedScoresValid ==
    \A g \in GameIds :
        IF games[g].is_finished
        THEN /\ games[g].team1_score # None
             /\ games[g].team2_score # None
             /\ is_valid_volleyball_score(games[g].team1_score, games[g].team2_score)
        ELSE games[g].team1_score = None /\ games[g].team2_score = None

(***************************************************************************)
(* Claims about the default-points recalculation                           *)
(***************************************************************************)

\* The last request was a recalculation that answered `status`.
Recalculated(r, status) == r.op = "recalculate_points" /\ r.status = status

\* C7: a successful recalculation run right after a successful one with the
\* same N leaves every prediction's points as the first run left them and
\* creates no placeholder (predictions_created = 0).
C7_RecalcIdempotent ==
    [][(/\ Recalculated(resp, "success")
        /\ Recalculated(resp', "success")
        /\ resp'.n_position = resp.n_position)
           => (predictions' = predictions /\ resp'.predictions_created = 0)]_vars

\* A second run in succession: nothing created, nothing updated, with
\* placeholders of the first run in the table.
C7_Witness ==
    /\ Recalculated(resp, "success")
    /\ resp.predictions_created = 0
    /\ resp.points_updated = 0
    /\ \E r \in BagToSet(predictions) : is_default_prediction(r)

\* The number of real predictions of game g whose points, computed against
\* the game's result, are at most v.
RealUpTo(g, v) ==
    LET real == {r \in filter_by_game(predictions, g) :
                    /\ ~is_default_prediction(r)
                    /\ calculate_points(r, games[g]) # None
                    /\ calculate_points(r, games[g]) <= v}
    IN count_rows(predictions, real)

\* The N-th smallest of the real points of game g, the smallest when there
\* are fewer than N, 0 when there is none.
NthSmallest(g, n) ==
    IF RealUpTo(g, 6) >= n
    THEN CHOOSE v \in 0..6 : RealUpTo(g, v - 1) < n /\ n <= RealUpTo(g, v)
    ELSE IF RealUpTo(g, 6) > 0
    THEN CHOOSE v \in 0..6 : RealUpTo(g, v - 1) = 0 /\ RealUpTo(g, v) > 0
    ELSE 0

\* C8: after a successful recalculation with N >= 1, in every finished game
\* every player has a row, and every placeholder row holds the N-th smallest
\* of the points of the game's real predictions when there are at least N,
\* else the smallest of them, else 0.
C8_DefaultIsNthSmallest ==
    Recalculated(resp, "success") =>
        \A g \in finished_games(games) :
            /\ \A u \in all_users : filter_by_user_game(predictions, u, g) # {}
            /\ \A r \in filter_by_game(predictions, g) :
                  is_default_prediction(r) => r.points = NthSmallest(g, resp.n_position)

\* Real points {0, 2, 6} and N = 2: the non-predictor has been given 2.
C8_Witness ==
    /\ Recalculated(resp, "success")
    /\ resp.n_position = 2
    /\ resp.predictions_created > 0
    /\ \E g \in finished_games(games) :
          /\ {r.points : r \in {r \in filter_by_game(predictions, g) :
                                   ~is_default_prediction(r)}} = {0, 2, 6}
          /\ \E r \in filter_by_game(predictions, g) :
                is_default_prediction(r) /\ r.points = 2

\* C9: a recalculation that raises answers with a failure and leaves the
\* persisted predictions, rows and points, as they were before the call.
C9_RecalcAllOrNothing ==
    [][Recalculated(resp', "error") => predictions' = predictions]_vars

\* A failed run over a table it would have changed: a finished game with an
\* unscored real prediction and a player without a row.
C9_Witness ==
    /\ Recalculated(resp, "error")
    /\ \E g \in finished_games(games) :
          /\ \E r \in filter_by_game(predictions, g) :
                ~is_default_prediction(r) /\ r.points = None
          /\ \E u \in all_users : filter_by_user_game(predictions, u, g) = {}

(***************************************************************************)
(* Claims about the player messages                                        *)
(***************************************************************************)

\* A request for a message by the player of the last request, in the same
\* hour, computing the two hashes the last request computed.
SecondRequest ==
    /\ resp.op = "get_user_message"
    /\ resp.at = now
    /\ resp'.op = "get_user_message"
    /\ resp'.user = resp.user
    /\ resp'.performance_hash = resp.performance_hash
    /\ resp'.latest_results_hash = resp.latest_results_hash
    /\ \E hash_fails \in BOOLEAN, gemini \in GeminiOutcomes, choice \in TemplateTexts :
          get_user_message(resp.user, hash_fails, gemini, choice)

\* C10: the second of two consecutive requests of a player within the same
\* hour, with unchanged hashes and the first message marked viewed, returns
\* the text the first returned, makes no generative call and leaves the
\* daily call counter as it was.
C10_CacheReuse ==
    [][SecondRequest => (/\ resp'.text = resp.text
                         /\ ~resp'.called
                         /\ ai'.calls_made = ai.calls_made)]_vars

\* The same for a first message that came from the cache or from the
\* generative service (and so was stored, and marked viewed by the request).
C10_StoredMessageReused ==
    [][(/\ SecondRequest
        /\ (resp.cached \/ (resp.called /\ resp.text \in GeminiTexts)))
           => (/\ resp'.text = resp.text
               /\ ~resp'.called
               /\ ai'.calls_made = ai.calls_made)]_vars

(***************************************************************************)
(* Claims about the fixtures import                                        *)
(***************************************************************************)

\* The file of the last upload is uploaded again.
ReUpload ==
    /\ resp.op = "upload_games"
    /\ upload_games(resp.is_csv, resp.file)

\* C11: importing the same fixtures file again adds no Game row: the table
\* after the re-upload is the table after the first upload, and the count of
\* games added is 0.
C11_ReUploadAddsNothing ==
    [][ReUpload => (games' = games /\ resp'.games_added = 0)]_vars

\* A file that added a game was uploaded, and games are stored.
C11_Witness ==
    /\ resp.op = "upload_games"
    /\ resp.status = "success"
    /\ resp.games_added = 0
    /\ Len(resp.file) > 0
    /\ \E i \in 1..Len(games) : existing_game(<<games[i]>>, resp.file[1])

(***************************************************************************)
(* Claims about the race chart                                             *)
(***************************************************************************)

\* The positions the chart gives the players at one game index.
PositionsAt(game_index) ==
    [i \in 1..Len(resp.players) |-> resp.players[i].data[game_index]]

\* C12: in the race-chart data the players are the selected users, and at
\* every game index their ranks are a permutation of 1..N: every rank of
\* 1..N is the rank of exactly one player, also when players have the same
\* cumulative points.
C12_RanksArePermutation ==
    (resp.op = "get_race_chart_data" /\ resp.games # <<>>) =>
        /\ {resp.players[i].id : i \in 1..Len(resp.players)} = chart_users(resp.selection)
        /\ Len(resp.players) = Cardinality(chart_users(resp.selection))
        /\ \A game_index \in 1..Len(resp.games) :
              \A rank \in 1..Len(resp.players) :
                 Cardinality({i \in 1..Len(resp.players) :
                                 PositionsAt(game_index)[i] = rank}) = 1

\* A chart of two games and at least three players in which, at the last
\* game, two players have the same cumulative points above zero.
C12_Witness ==
    /\ resp.op = "get_race_chart_data"
    /\ Len(resp.games) >= 2
    /\ Len(resp.players) >= 3
    /\ \E i, j \in 1..Len(resp.players) :
          /\ i # j
          /\ resp.players[i].points_data[Len(resp.games)] > 0
          /\ resp.players[i].points_data[Len(resp.games)]
                = resp.players[j].points_data[Len(resp.games)]

(***************************************************************************)
(* Claims about the what-if analysis                                       *)
(***************************************************************************)

\* The sum of (total after the game - current total) over the users of a
\* scenario, from result i on.
RECURSIVE SumOfGains(_, _)
SumOfGains(user_results, i) ==
    IF i > Len(user_results) THEN 0
    ELSE (user_results[i].total_after_game - user_results[i].current_total)
         + SumOfGains(user_results, i + 1)

\* The sum of calculate_points over the real predictions among `rows`
\* against a finished game.
RECURSIVE SumOfPoints(_, _)
SumOfPoints(rows, game) ==
    IF rows = {} THEN 0
    ELSE LET r == CHOOSE r \in rows : TRUE
         IN (IF is_default_prediction(r) THEN 0
             ELSE calculate_points(r, game) * CopiesIn(r, predictions))
            + SumOfPoints(rows \ {r}, game)

\* C13: for each of the 6 simulated outcomes of the what-if analysis, the
\* users' gains (new total - current total) add up to the sum of
\* calculate_points over the real predictions for the target game against
\* that outcome; a user without a real prediction gains 0.
C13_WhatIfConservation ==
    (resp.op = "potential_points" /\ resp.status = "scenarios") =>
        /\ Len(resp.scenarios) = 6
        /\ {<<resp.scenarios[k].team1_score, resp.scenarios[k].team2_score>> :
               k \in 1..Len(resp.scenarios)} = ValidScores
        /\ \A k \in 1..Len(resp.scenarios) :
              LET outcome == [team1_score |-> resp.scenarios[k].team1_score,
                              team2_score |-> resp.scenarios[k].team2_score,
                              is_finished |-> TRUE]
              IN /\ SumOfGains(resp.scenarios[k].user_results, 1)
                       = SumOfPoints(filter_by_game(predictions, resp.game_id), outcome)
                 /\ \A i \in 1..Len(resp.scenarios[k].user_results) :
                       LET result == resp.scenarios[k].user_results[i]
                           rows == filter_by_user_game(predictions, result.user_id,
                                                       resp.game_id)
                       IN (\A r \in rows : is_default_prediction(r))
                             => result.total_after_game = result.current_total

\* Scenarios of a game for which two players have real predictions and
\* one has none, the players having points already, one of them from a
\* placeholder.
C13_Witness ==
    /\ resp.op = "potential_points"
    /\ resp.status = "scenarios"
    /\ \E u, v \in all_users :
          /\ u # v
          /\ filter_by_user_game(predictions, u, resp.game_id) # {}
          /\ filter_by_user_game(predictions, v, resp.game_id) # {}
    /\ \E u \in all_users : filter_by_user_game(predictions, u, resp.game_id) = {}
    /\ \E r \in BagToSet(predictions) : is_default_prediction(r) /\ r.points > 0
    /\ \E i \in 1..Len(resp.scenarios[1].user_results) :
          /\ resp.scenarios[1].user_results[i].current_total > 0
          /\ resp.scenarios[1].user_results[i].points_earned > 0

(***************************************************************************)
(* Claims about the highlight search                                       *)
(***************************************************************************)

HighlightsAnswered == resp.op = "search_game_highlights" /\ resp.game_id \in GameIds

\* C14: in the videos returned by the highlight search, every video has a
\* volleyball keyword or a team name in its title or description; every
\* fetched video whose relevance score is exactly 2 is returned; and no
\* video id is returned twice.
C14_HighlightFilter ==
    HighlightsAnswered =>
        /\ \A i \in 1..Len(resp.videos) :
              \/ has_volleyball(resp.videos[i])
              \/ has_teams(resp.videos[i], games[resp.game_id].team1,
                           games[resp.game_id].team2)
        /\ \A i \in 1..Len(resp.fetched) :
              relevance_score(resp.fetched[i], games[resp.game_id].team1,
                              games[resp.game_id].team2) = 2
                 => \E j \in 1..Len(resp.videos) :
                       resp.videos[j].video_id = resp.fetched[i].video_id
        /\ \A i, j \in 1..Len(resp.videos) :
              resp.videos[i].video_id = resp.videos[j].video_id => i = j

\* What the code does keep of it: the videos returned are the fetched ones
\* that score at least 2 (a score of exactly 2 included), each once.
C14_ThresholdAndDedup ==
    HighlightsAnswered =>
        /\ {resp.videos[i].video_id : i \in 1..Len(resp.videos)}
              = {resp.fetched[i].video_id :
                    i \in {i \in 1..Len(resp.fetched) :
                              relevance_score(resp.fetched[i], games[resp.game_id].team1,
                                              games[resp.game_id].team2) >= 2}}
        /\ \A i, j \in 1..Len(resp.videos) :
              resp.videos[i].video_id = resp.videos[j].video_id => i = j

(***************************************************************************)
(* Claims about the result search                                          *)
(***************************************************************************)

\* C15: every query is gated by the monthly usage counter: the searches
\* used in the current month never exceed the monthly limit.
C15_SearchesWithinLimit == serpapi.searches_used <= monthly_limit

\* What the gate does give: a call that finds the limit reached issues no
\* query.
C15_NoSearchOnceExhausted ==
    [][serpapi.searches_used >= monthly_limit
          => serpapi'.searches_used = serpapi.searches_used]_vars

\* The step is an unforced update_game_with_result call for the game g.
UnforcedCall(g) ==
    /\ resp'.op = "update_game_with_result"
    /\ resp'.game_id = g
    /\ ~resp'.force

\* C16: an unforced update_game_with_result call for a game that is
\* finished answers success, for a game not finished whose auto-update was
\* attempted answers failure; either way it searches nothing and changes
\* nothing.  An unforced call that searches finds the game not attempted and
\* leaves it attempted, and an attempted game stays attempted: the unforced
\* calls perform at most one search per game.
C16_UnforcedCallsSearchOnce ==
    [][\A g \in GameIds :
          /\ (UnforcedCall(g) /\ games[g].is_finished)
                => (/\ resp'.status = "true" /\ ~resp'.searched
                    /\ UNCHANGED <<games, predictions, serpapi>>)
          /\ (UnforcedCall(g) /\ ~games[g].is_finished /\ games[g].auto_update_attempted)
                => (/\ resp'.status = "false" /\ ~resp'.searched
                    /\ UNCHANGED <<games, predictions, serpapi>>)
          /\ (UnforcedCall(g) /\ resp'.searched)
                => (~games[g].auto_update_attempted /\ games'[g].auto_update_attempted)
          /\ games[g].auto_update_attempted => games'[g].auto_update_attempted]_vars

\* An unforced call has just left alone a game that an earlier search
\* attempt had marked, with searches still allowed.
C16_Witness ==
    /\ resp.op = "update_game_with_result"
    /\ resp.game_id \in GameIds
    /\ ~resp.force
    /\ resp.status = "false"
    /\ ~resp.searched
    /\ games[resp.game_id].auto_update_attempted
    /\ ~games[resp.game_id].is_finished
    /\ check_monthly_limit(serpapi)

\* update_game_with_result has just found a result and answered success.
ResultFound ==
    /\ resp.op = "update_game_with_result"
    /\ resp.status = "true"
    /\ resp.searched

\* The columns a found result writes, but the source; the predictions of
\* the game scored against the written result.
ResultWritten(game_id) ==
    /\ games[game_id].team1_score # None
    /\ games[game_id].team2_score # None
    /\ games[game_id].is_finished
    /\ games[game_id].serpapi_search_used
    /\ games[game_id].auto_update_attempted
    /\ \A r \in filter_by_game(predictions, game_id) :
          r.points = calculate_points(r, games[game_id])

\* C17: after update_game_with_result found a result and answered success,
\* the game has both scores, is finished, has result_source "auto_serpapi",
\* serpapi_search_used and auto_update_attempted set, and every prediction
\* of the game has the points of the scoring engine against that result.
C17_FoundResultWritten ==
    ResultFound => /\ ResultWritten(resp.game_id)
                   /\ games[resp.game_id].result_source = "auto_serpapi"

\* What the code does write: the same, with the source the parser named.
C17_WrittenWithParserSource ==
    ResultFound => /\ ResultWritten(resp.game_id)
                   /\ games[resp.game_id].result_source
                         \in {"serpapi_structured", "serpapi_text"}

(***************************************************************************)
(* Claims about the accounts                                               *)
(***************************************************************************)

\* The step is a request by the user u.
RequestBy(u) == resp'.user = u /\ resp'.op # "none"

\* The form of the change-password request of the step is acceptable.
AcceptableForm ==
    /\ resp'.new_password # ""
    /\ resp'.new_password = resp'.confirm_password
    /\ len(resp'.new_password) >= 6

\* C18: while password_reset_required is set on a logged-in user, every
\* request of the user to an endpoint outside the allow-list is redirected
\* to the change-password page and changes nothing; the flag stays set
\* until the user submits a new password of at least 6 characters with a
\* matching confirmation, which clears it; a rejected submission leaves it
\* set; with the flag clear no request is redirected to that page.
C18_ForcedPasswordChange ==
    [][\A u \in Users :
          /\ (/\ RequestBy(u)
              /\ accounts[u].authenticated
              /\ accounts[u].password_reset_required
              /\ resp'.op \notin {"login", "logout", "register", "change_password",
                                  "static"})
                => (/\ resp'.status = "redirect_change_password"
                    /\ UNCHANGED <<accounts, games, predictions, tournament, config>>)
          /\ (/\ RequestBy(u)
              /\ accounts[u].authenticated
              /\ accounts[u].password_reset_required
              /\ resp'.op = "change_password")
                => IF AcceptableForm
                   THEN /\ ~accounts'[u].password_reset_required
                        /\ accounts'[u].password = resp'.new_password
                   ELSE /\ accounts'[u].password_reset_required
                        /\ accounts'[u].password = accounts[u].password
          /\ (accounts[u].password_reset_required /\ ~accounts'[u].password_reset_required)
                => (RequestBy(u) /\ resp'.op = "change_password" /\ AcceptableForm)
          /\ (RequestBy(u) /\ ~accounts[u].password_reset_required)
                => resp'.status # "redirect_change_password"]_vars

\* A logged-in user whose password reset is required has just been
\* redirected from the prediction form, no prediction stored.
C18_Witness ==
    /\ resp.op = "make_prediction"
    /\ resp.status = "redirect_change_password"
    /\ accounts[resp.user].authenticated
    /\ accounts[resp.user].password_reset_required
    /\ filter_by_user(predictions, resp.user) = {}

(***************************************************************************)
(* Claims about the podium predictions                                     *)
(***************************************************************************)

\* Each user has at most one TournamentPrediction row, and every row holds
\* three different picks, none missing.
PodiumRowsValid ==
    /\ \A r \in BagToSet(tournament.predictions) :
          /\ CopiesIn(r, tournament.predictions) = 1
          /\ tournament_rows_of(tournament.predictions, r.user_id) = {r}
          /\ r.first_place # NoTeam /\ r.second_place # NoTeam /\ r.third_place # NoTeam
          /\ r.first_place # r.second_place
          /\ r.first_place # r.third_place
          /\ r.second_place # r.third_place

\* The step is a podium submission that has a pick missing, fewer than 3
\* different teams, or comes at or after the deadline.
BadPodiumSubmission ==
    \E u \in Users, form \in PodiumForms :
       /\ tournament_predictions(u, form)
       /\ \/ \E i \in 1..3 : form[i] = NoTeam
          \/ \E i, j \in 1..3 : i # j /\ form[i] = form[j]
          \/ now >= tournament.prediction_deadline

\* C19: after any sequence of podium submissions each user has at most one
\* TournamentPrediction row and every row holds three different, non-empty
\* picks; a submission with a pick missing, with fewer than 3 different
\* teams or after the deadline is rejected and leaves the rows unchanged.
C19_PodiumSubmissions ==
    /\ []PodiumRowsValid
    /\ [][BadPodiumSubmission => (resp'.status # "saved" /\ UNCHANGED tournament)]_vars

\* A user has replaced a stored podium by another one, and a second user
\* has one too.
C19_Witness ==
    /\ resp.op = "tournament_predictions"
    /\ resp.status = "saved"
    /\ \E r \in tournament_rows_of(tournament.predictions, resp.user) :
          r.updated_at > 0 /\ r.first_place = "B"
    /\ \E u \in Users \ {resp.user} : tournament_rows_of(tournament.predictions, u) # {}

(***************************************************************************)
(* Claims about the concurrent submissions                                 *)
(***************************************************************************)

\* Two finished requests that both read no row of the same key: two first
\* predictions of one (user, game), or two first podiums of one user.
ConcurrentFirstSubmissions(r1, r2) ==
    /\ r1 # r2
    /\ requests[r1].stage = "done" /\ requests[r2].stage = "done"
    /\ requests[r1].outcome \in {"saved", "integrity_error"}
    /\ requests[r2].outcome \in {"saved", "integrity_error"}
    /\ ~requests[r1].existing /\ ~requests[r2].existing
    /\ requests[r1].user_id = requests[r2].user_id
    /\ requests[r1].game_id = requests[r2].game_id
    /\ (requests[r1].handler \in PredictionHandlers)
          = (requests[r2].handler \in PredictionHandlers)

\* C20: of two requests that each read no row of one (user, game) before
\* either commits, at most one insert commits and the other fails on the
\* unique constraint; no interleaving leaves two Prediction rows of one
\* (user, game) or two TournamentPrediction rows of one user.
C20_ConcurrentFirstInserts ==
    /\ \A r1, r2 \in Requests :
          ConcurrentFirstSubmissions(r1, r2)
             => "integrity_error" \in {requests[r1].outcome, requests[r2].outcome}
    /\ \A u \in Users, g \in GameIds : RowCount(predictions, u, g) <= 1
    /\ \A u \in Users :
          count_rows(tournament.predictions,
                     tournament_rows_of(tournament.predictions, u)) <= 1

\* Two concurrent first predictions of one (user, game): one saved, the
\* other refused, one row stored.
C20_Witness ==
    \E r1, r2 \in Requests :
       /\ ConcurrentFirstSubmissions(r1, r2)
       /\ requests[r1].handler \in PredictionHandlers
       /\ requests[r1].outcome = "saved"
       /\ requests[r2].outcome = "integrity_error"
       /\ RowCount(predictions, requests[r1].user_id, requests[r1].game_id) = 1

(***************************************************************************)
(* Claims about the scores ledger                                          *)
(***************************************************************************)

\* C21: in every state, every prediction with both scores present whose
\* game is finished has points equal to calculate_points(prediction, game).
C21_PointsMatchResult ==
    \A p \in BagToSet(predictions) :
       (p.team1_score # None /\ p.team2_score # None /\ games[p.game_id].is_finished)
          => p.points = calculate_points(p, games[p.game_id])

(***************************************************************************)
(* Claims about the attempted mark and the usage counter                   *)
(***************************************************************************)

\* C22: an update_game_with_result call whose search is refused before any
\* query (the service not configured, or the monthly limit reached) leaves
\* the game's auto_update_attempted mark as it was.
C22_AttemptedOnlyAfterQuery ==
    [][\A g \in GameIds :
          (/\ resp'.op = "update_game_with_result"
           /\ resp'.game_id = g
           /\ ~resp'.searched)
             => games'[g].auto_update_attempted = games[g].auto_update_attempted]_vars

\* The queries of a run that client.search answered, up to and including
\* the first whose response holds a result.
RECURSIVE QueriesAnswered(_, _)
QueriesAnswered(run, k) ==
    IF k > NumQueries THEN 0
    ELSE IF run[k].failed THEN QueriesAnswered(run, k + 1)
    ELSE IF run[k].result # NoResult THEN 1
    ELSE 1 + QueriesAnswered(run, k + 1)

\* The step is a search with the queries of `run`, by the scheduler's call
\* or by manual_result_search in either mode.
SearchStep(run) ==
    \/ \E g \in GameIds : update_game_with_result(g, FALSE, run)
    \/ \E g \in GameIds \cup {NoGame}, test_mode \in BOOLEAN :
          manual_result_search(g, test_mode, run)

\* C23: every search adds to searches_used exactly the number of queries
\* that were issued and answered: none when the search is refused.
C23_UsageCountsQueries ==
    [][\A run \in SearchRuns :
          SearchStep(run)
             => serpapi'.searches_used
                   = serpapi.searches_used
                        + (IF resp'.searched THEN QueriesAnswered(run, 1) ELSE 0)]_vars

\* The scheduled and the forced searches do add one per answered query.
C23_WriteBackCountsQueries ==
    [][\A run \in SearchRuns :
          (SearchStep(run) /\ resp'.op = "update_game_with_result")
             => serpapi'.searches_used
                   = serpapi.searches_used
                        + (IF resp'.searched THEN QueriesAnswered(run, 1) ELSE 0)]_vars

\* C27: a manual result search in test mode leaves every game's scores,
\* is_finished and result_source and every prediction as they were, whatever
\* the search finds; a test search that is performed consumes the monthly
\* usage counter.
C27_TestSearchWritesNoResult ==
    [][\A g \in GameIds \cup {NoGame}, run \in SearchRuns :
          manual_result_search(g, TRUE, run)
             => /\ \A h \in GameIds :
                      /\ games'[h].team1_score = games[h].team1_score
                      /\ games'[h].team2_score = games[h].team2_score
                      /\ games'[h].is_finished = games[h].is_finished
                      /\ games'[h].result_source = games[h].result_source
                /\ predictions' = predictions
                /\ resp'.status \in {"test_found", "test_none"}
                      => serpapi'.searches_used > serpapi.searches_used]_vars

\* A test search has just found a result for a game that is still without
\* one, its predictions unscored.
C27_Witness ==
    /\ resp.op = "manual_result_search"
    /\ resp.status = "test_found"
    /\ ~games[resp.game_id].is_finished
    /\ games[resp.game_id].serpapi_search_used
    /\ filter_by_game(predictions, resp.game_id) # {}
    /\ \A p \in filter_by_game(predictions, resp.game_id) : p.points = None

(***************************************************************************)
(* Claims about the podium results                                         *)
(***************************************************************************)

\* C24: whenever the config is finalized with all three results, every
\* TournamentPrediction's points_earned equals calculate_tournament_points
\* of its picks against those results.
C24_PodiumPointsMatchResults ==
    are_results_available(tournament.results)
       => \A r \in BagToSet(tournament.predictions) :
             r.points_earned = calculate_tournament_points(r, tournament.results)

\* Right after set_tournament_results has finalized, every podium
\* prediction holds its points.
C24_ScoredAtFinalization ==
    (resp.op = "set_tournament_results" /\ resp.status = "finalized")
       => C24_PodiumPointsMatchResults

(***************************************************************************)
(* Claims about the leaderboard counts and the placeholder rows            *)
(***************************************************************************)

\* User.get_total_predictions: the user's rows with team1_score present,
\* the game finished and points present.
get_total_predictions(user_id) ==
    count_rows(predictions,
               {p \in filter_by_user(predictions, user_id) :
                   /\ p.team1_score # None
                   /\ games[p.game_id].is_finished
                   /\ p.points # None})

\* User.get_correct_predictions: the user's rows with 2 points or more, the
\* game finished.
get_correct_predictions(user_id) ==
    count_rows(predictions,
               {p \in filter_by_user(predictions, user_id) :
                   /\ p.points # None
                   /\ p.points >= 2
                   /\ games[p.game_id].is_finished})

\* C25: for every user, the leaderboard's correct-prediction count never
\* exceeds its finished-prediction count.
C25_CorrectWithinTotal ==
    \A u \in all_users : get_correct_predictions(u) <= get_total_predictions(u)

\* The counts agree in that order as long as no placeholder row exists.
C25_CorrectWithinTotalOfRealRows ==
    (\A p \in BagToSet(predictions) : ~is_default_prediction(p)) => C25_CorrectWithinTotal

\* C26: after a successful recalculation every finished game has exactly
\* one row for every user, every placeholder row of the game holds the
\* game's default points, and every real prediction has the scores and the
\* predicted winner it had before the run.
C26_RecalcCompletesRows ==
    /\ [](Recalculated(resp, "success") =>
             \A g \in finished_games(games) :
                /\ \A u \in all_users : RowCount(predictions, u, g) = 1
                /\ \A r \in filter_by_game(predictions, g) :
                      is_default_prediction(r) => r.points = NthSmallest(g, resp.n_position))
    /\ [][Recalculated(resp', "success") =>
             \A r \in BagToSet(predictions) :
                ~is_default_prediction(r) =>
                   \E q \in filter_by_user_game(predictions', r.user_id, r.game_id) :
                      /\ q.team1_score = r.team1_score
                      /\ q.team2_score = r.team2_score
                      /\ q.predicted_winner = r.predicted_winner]_vars

\* A successful run has created a placeholder and rescored a real
\* prediction of a finished game that also held an older placeholder.
C26_Witness ==
    /\ Recalculated(resp, "success")
    /\ resp.predictions_created > 0
    /\ resp.points_updated > 1
    /\ \E g \in finished_games(games) :
          \E r, q \in filter_by_game(predictions, g) :
             /\ ~is_default_prediction(r) /\ r.points = 6
             /\ is_default_prediction(q) /\ q.user_id = NumPlayers

(***************************************************************************)
(* Claims about the highlight rows                                         *)
(***************************************************************************)

\* C28: no two GameHighlight rows share a youtube_video_id.
C28_VideoIdsUnique ==
    \A r \in BagToSet(highlights) :
       /\ CopiesIn(r, highlights) = 1
       /\ \A q \in BagToSet(highlights) : q.youtube_video_id = r.youtube_video_id => q = r

\* The detection job and the manual add keep the ids apart: a step of
\* either adds no row whose video id a row already holds.
C28_CheckedPathsAddNoDuplicate ==
    [][resp'.op \in {"auto_detect_highlights", "add_highlight"} =>
          \A r \in BagToSet(highlights') :
             /\ CopiesIn(r, highlights') <= IF r \in BagToSet(highlights)
                                            THEN CopiesIn(r, highlights) ELSE 1
             /\ r \notin BagToSet(highlights) =>
                   /\ ~video_exists(highlights, r.youtube_video_id)
                   /\ \A q \in BagToSet(highlights') :
                         q.youtube_video_id = r.youtube_video_id => q = r]_vars

(***************************************************************************)
(* Claims about the registrations                                          *)
(***************************************************************************)

\* C29: in every interleaving of the registrations at most one of the
\* created users has is_admin = true.
C29_OneAdmin ==
    Cardinality({i \in 1..Len(accounts) : accounts[i].is_admin}) <= 1

\* A registration that starts once a user is stored never creates an
\* administrator.
C29_LaterRegistrationNoAdmin ==
    [][\A r \in Requests, form \in RegisterForms :
          (register_read(r, form) /\ Len(accounts) > 0) => ~requests'[r].is_admin]_vars

\* get_monthly_usage_info()['can_search'] with the client configured.
QuotaRemains == serpapi.configured /\ get_monthly_usage_info(serpapi).can_search

\* An unfinished game that started three hours ago or earlier.
Eligible(g) == ~games[g].is_finished /\ games[g].game_date <= now - three_hours

====
